---- MODULE Spec2Model ----
(***************************************************************************)
(* Ranking engine of the Spotwego restaurant dashboard (src/app.py):       *)
(* region resolution, per-restaurant composite scoring, the ranking upsert *)
(* and the global re-rank, together with the handlers that write the       *)
(* tables the engine reads; the sentiment analyzer with its keyword        *)
(* fallback and aspect extractor, and the rating combiner.                 *)
(*                                                                         *)
(* Numbers are fixed point: ratings in tenths (45 = 4.5), weights in       *)
(* hundredths (25 = 0.25), sentiment, composite and confidence scores in   *)
(* thousandths (4200 = 4.200).  Text is a sequence of characters.          *)
(***************************************************************************)
EXTENDS Integers, Sequences, FiniteSets, TLC

VARIABLES
    restaurants,      \* restaurants table: id -> [is_active, canton, city]
    regions,          \* regions table: set of [code, name] rows, code unique
    source_ratings,   \* source_ratings table: set of rows
    reviews,          \* reviews table: restaurant id -> sequence of sentiment_score
    ranking_weights,  \* ranking_weights table: sequence of rows, in id order
    rankings,         \* rankings table: set of rows, id unique
    call,             \* the last handler call: its name, the store fault it
                      \* met ("none" when the store worked), whether it
                      \* raised to its caller and, for compute_rankings, its
                      \* region_code and the ids it resolved
    sentiment_keywords,  \* sentiment_keywords table: set of rows
    analysis,         \* a call of analyze_review_sentiment: its text, what
                      \* the store and the statistical model do, and its
                      \* result once it has returned (done)
    combined,         \* a call of combine_rating_and_text_sentiment: its
                      \* arguments and its score once it has returned
    is_excluded,      \* restaurants.is_excluded column: id -> 0 or 1
    auto_push,        \* regions rows with is_active = 1 and auto_push = 1:
                      \* set of [code, push_top_n]
    clock,            \* the store's clock (NOW(), CURRENT_TIMESTAMP)
    review_created_at,  \* reviews.created_at column: restaurant id ->
                      \* sequence of times, parallel to reviews
    batches           \* the compute_rankings_for_restaurants invocations that
                      \* run statement by statement next to each other:
                      \* invocation -> its position and local variables

vars == <<restaurants, regions, source_ratings, reviews, ranking_weights,
          rankings, call, sentiment_keywords, analysis, combined,
          is_excluded, auto_push, clock, review_created_at, batches>>

\* The curation columns, the clock and the invocations in flight.
curation_vars == <<is_excluded, auto_push, clock, review_created_at, batches>>

\* The variables of the sentiment analyzer and the rating combiner.
sentiment_vars == <<sentiment_keywords, analysis, combined>>

\* ------------------------------------------------------------------ bounds
\* Number of restaurant rows.
MaxRestaurants == 2
\* Number of ranking_weights rows the model lets start-ups accumulate.
MaxWeightRows == 2
RIds == 1 .. MaxRestaurants

\* SQL NULL / Python None, one per column type: TLC compares only values of
\* one type.  No integer column of the model holds a value below -1000.
NULL == "NULL"
NullInt == 0 - 999999
NullText == <<"NULL">>

\* ------------------------------------------------------------------- text
\* SQL LOWER() and str.lower() on one character of ASCII text.
UpperLetters ==
    <<"A", "B", "C", "D", "E", "F", "G", "H", "I", "J", "K", "L", "M",
      "N", "O", "P", "Q", "R", "S", "T", "U", "V", "W", "X", "Y", "Z">>

LowerLetters ==
    <<"a", "b", "c", "d", "e", "f", "g", "h", "i", "j", "k", "l", "m",
      "n", "o", "p", "q", "r", "s", "t", "u", "v", "w", "x", "y", "z">>

LowerChar(c) ==
    IF \E i \in DOMAIN UpperLetters : UpperLetters[i] = c
    THEN LowerLetters[CHOOSE i \in DOMAIN UpperLetters : UpperLetters[i] = c]
    ELSE c

\* SQL LOWER(): NULL stays NULL.
Lower(s) == IF s = NullText THEN NullText ELSE [i \in DOMAIN s |-> LowerChar(s[i])]

\* SQL "a = b": never true when an operand is NULL.
SqlEq(a, b) == a # NullText /\ b # NullText /\ a = b

\* ------------------------------------------------------------- arithmetic
RECURSIVE SumOver(_, _)
\* sum(f[x] for x in S)
SumOver(S, f) ==
    IF S = {} THEN 0
    ELSE LET x == CHOOSE y \in S : TRUE IN f[x] + SumOver(S \ {x}, f)

\* Python round() of the rational n/d (d > 0) to an integer: half to even.
RoundDiv(n, d) ==
    LET q == IF n >= 0 THEN n \div d ELSE 0 - (((0 - n) + d - 1) \div d)
        r == n - q * d
    IN  IF 2 * r < d THEN q
        ELSE IF 2 * r > d THEN q + 1
        ELSE IF q % 2 = 0 THEN q ELSE q + 1

\* round(log10(n + 1) / log10(100), 3) for n = 0 .. 98, in thousandths.
Log100Table ==
    <<
      0, 151, 239, 301, 349, 389, 423, 452, 477, 500, 521,
      540, 557, 573, 588, 602, 615, 628, 639, 651, 661, 671,
      681, 690, 699, 707, 716, 724, 731, 739, 746, 753, 759,
      766, 772, 778, 784, 790, 796, 801, 806, 812, 817, 822,
      827, 831, 836, 841, 845, 849, 854, 858, 862, 866, 870,
      874, 878, 882, 885, 889, 893, 896, 900, 903, 906, 910,
      913, 916, 919, 923, 926, 929, 932, 935, 938, 940, 943,
      946, 949, 952, 954, 957, 960, 962, 965, 967, 970, 972,
      975, 977, 980, 982, 984, 987, 989, 991, 993, 996, 998
    >>

\* ----------------------------------------------------------------- tables

\* A weight that json.loads returns as a non-number (e.g. "high").
BadWeight == NullInt - 1

\* The column defaults of ranking_weights.
DefaultWeightsRow ==
    [is_active |-> 1, weight_google |-> 25, weight_yelp |-> 20,
     weight_tripadvisor |-> 25, weight_sentiment |-> 10,
     min_reviews_threshold |-> 5, custom_weights |-> <<>>]

\* The dict compute_rankings_for_restaurants uses when no row is active.
FallbackWeights == DefaultWeightsRow

\* json.loads(w['custom_weights']) when the column is set, else {}.  The
\* column holds the provider -> weight map; a NULL column and '{}' are both the
\* empty map.
CustomWeights(w) == w.custom_weights

\* provider_weights: the three builtin providers, updated with the custom ones.
ProviderWeights(w) ==
    LET cw == CustomWeights(w)
        builtin == [p \in {"google", "yelp", "tripadvisor"} |->
                      CASE p = "google" -> w.weight_google
                        [] p = "yelp" -> w.weight_yelp
                        [] OTHER -> w.weight_tripadvisor]
    IN  [p \in DOMAIN builtin \cup DOMAIN cw |->
            IF p \in DOMAIN cw THEN cw[p] ELSE builtin[p]]

\* sources: source -> {rating, count} of one restaurant's source_ratings rows.
SourcesOf(sr, rid) ==
    LET rows == {x \in sr : x.restaurant_id = rid}
    IN  [s \in {x.source : x \in rows} |->
            LET x == CHOOSE y \in rows : y.source = s
            IN  [rating |-> x.avg_rating,
                 count |-> IF x.review_count = NullInt THEN 0 ELSE x.review_count]]

\* SELECT AVG(sentiment_score), COUNT(*) ... WHERE sentiment_score IS NOT NULL,
\* as the exact fraction num/den (num = 0, den = 1 when AVG is NULL).
SentimentOf(rv, rid) ==
    LET scored == {i \in DOMAIN rv[rid] : rv[rid][i] # NullInt}
        total == SumOver(scored, rv[rid])
    IN  IF scored = {} \/ total = 0
        THEN [num |-> 0, den |-> 1, count |-> Cardinality(scored)]
        ELSE [num |-> total, den |-> Cardinality(scored),
              count |-> Cardinality(scored)]

\* min(1.0, log10(total_reviews + 1) / log10(100)), rounded to 3 decimals.
LogConfidence(n) == IF n >= 99 THEN 1000 ELSE Log100Table[n + 1]

\* The providers whose rating enters the weighted average.
RatedProviders(pw, sources) ==
    {p \in DOMAIN pw : p \in DOMAIN sources /\ sources[p].rating # NullInt
                       /\ sources[p].rating # 0}

\* Variant: the composite is computed whatever avg_rating is.
Composite_unguarded(weighted_rating, total_weight, ws, sent) ==
    IF total_weight > 0
    THEN RoundDiv(weighted_rating * (100 - ws) * 40 * sent.den
                    + (sent.num + 1000 * sent.den) * ws * total_weight,
                  40 * sent.den * total_weight)
    ELSE RoundDiv((sent.num + 1000 * sent.den) * ws, 40 * sent.den)

\* Variant: the composite is cut after 3 decimals instead of rounded.
Composite_truncated(weighted_rating, total_weight, ws, sent) ==
    IF total_weight > 0 /\ weighted_rating > 0
    THEN (weighted_rating * (100 - ws) * 40 * sent.den
            + (sent.num + 1000 * sent.den) * ws * total_weight)
           \div (40 * sent.den * total_weight)
    ELSE 0

\* avg_rating = weighted_rating / total_weight if total_weight > 0 else 0
\* composite = avg_rating * (1 - ws) + ((avg_sent + 1) / 2) * 5 * ws
\*             if avg_rating > 0 else 0, rounded to 3 decimals.
Composite(weighted_rating, total_weight, ws, sent) ==
    IF total_weight > 0 /\ weighted_rating > 0
    THEN RoundDiv(weighted_rating * (100 - ws) * 40 * sent.den
                    + (sent.num + 1000 * sent.den) * ws * total_weight,
                  40 * sent.den * total_weight)
    ELSE 0

\* Variant: the weighted sum is divided by the weight of every configured
\* provider, rated or not.
Score_not_renormalized(w, sr, rv, rid) ==
    LET sources == SourcesOf(sr, rid)
        sent == SentimentOf(rv, rid)
        pw == ProviderWeights(w)
        total_reviews == SumOver(DOMAIN sources, [s \in DOMAIN sources |-> sources[s].count])
        rated == RatedProviders(pw, sources)
        raises == (\E p \in rated : pw[p] = BadWeight)
                  \/ (total_reviews >= w.min_reviews_threshold /\ total_reviews + 1 <= 0)
        weighted_rating == SumOver(rated, [p \in rated |-> sources[p].rating * pw[p]])
        total_weight == SumOver(DOMAIN pw, pw)
        composite == Composite(weighted_rating, total_weight,
                               w.weight_sentiment, sent)
        confidence ==
            IF total_reviews >= w.min_reviews_threshold
            THEN LogConfidence(total_reviews) ELSE 500
    IN  IF raises THEN [ok |-> FALSE]
        ELSE [ok |-> TRUE,
              composite_score |-> composite,
              sentiment_avg |-> RoundDiv(sent.num, sent.den),
              confidence_score |-> confidence,
              total_reviews |-> total_reviews]

\* Variant: the threshold itself still counts as too few reviews.
Score_threshold_exclusive(w, sr, rv, rid) ==
    LET sources == SourcesOf(sr, rid)
        sent == SentimentOf(rv, rid)
        pw == ProviderWeights(w)
        total_reviews == SumOver(DOMAIN sources, [s \in DOMAIN sources |-> sources[s].count])
        rated == RatedProviders(pw, sources)
        raises == (\E p \in rated : pw[p] = BadWeight)
                  \/ (total_reviews >= w.min_reviews_threshold /\ total_reviews + 1 <= 0)
        weighted_rating == SumOver(rated, [p \in rated |-> sources[p].rating * pw[p]])
        total_weight == SumOver(rated, pw)
        composite == Composite(weighted_rating, total_weight,
                               w.weight_sentiment, sent)
        confidence ==
            IF total_reviews > w.min_reviews_threshold
            THEN LogConfidence(total_reviews) ELSE 500
    IN  IF raises THEN [ok |-> FALSE]
        ELSE [ok |-> TRUE,
              composite_score |-> composite,
              sentiment_avg |-> RoundDiv(sent.num, sent.den),
              confidence_score |-> confidence,
              total_reviews |-> total_reviews]

\* One iteration of the scoring loop up to the upsert: the values to store,
\* or ok = FALSE when the iteration raises.
Score(w, sr, rv, rid) ==
    LET sources == SourcesOf(sr, rid)
        sent == SentimentOf(rv, rid)
        pw == ProviderWeights(w)
        total_reviews == SumOver(DOMAIN sources, [s \in DOMAIN sources |-> sources[s].count])
        rated == RatedProviders(pw, sources)
        raises == (\E p \in rated : pw[p] = BadWeight)
                  \/ (total_reviews >= w.min_reviews_threshold /\ total_reviews + 1 <= 0)
        weighted_rating == SumOver(rated, [p \in rated |-> sources[p].rating * pw[p]])
        total_weight == SumOver(rated, pw)
        composite == Composite(weighted_rating, total_weight,
                               w.weight_sentiment, sent)
        confidence ==
            IF total_reviews >= w.min_reviews_threshold
            THEN LogConfidence(total_reviews) ELSE 500
    IN  IF raises THEN [ok |-> FALSE]
        ELSE [ok |-> TRUE,
              composite_score |-> composite,
              sentiment_avg |-> RoundDiv(sent.num, sent.den),
              confidence_score |-> confidence,
              total_reviews |-> total_reviews]

\* -------------------------------------------------------- rankings table
\* AUTOINCREMENT / SERIAL id of the next rankings row.
NextRankingId(rk) ==
    IF rk = {} THEN 1
    ELSE 1 + (CHOOSE m \in {x.id : x \in rk} : \A x \in rk : x.id <= m)

\* INSERT INTO rankings (...) VALUES (rid, ..., 0, 0, 0): the other columns
\* take their defaults, last_computed the time of the insert.
NewRankingRow(rk, rid, sc) ==
    [id |-> NextRankingId(rk), restaurant_id |-> rid,
     composite_score |-> sc.composite_score, sentiment_avg |-> sc.sentiment_avg,
     confidence_score |-> sc.confidence_score, total_reviews |-> sc.total_reviews,
     auto_rank |-> 0, manual_rank |-> NullInt, is_featured |-> 0,
     is_published |-> 0, is_pushed |-> 0, admin_notes |-> NULL,
     last_computed |-> clock]

\* Variant: the update rewrites the whole row from the insert's column list
\* (an INSERT OR REPLACE), resetting the curated columns.
UpdatedRankingRow_replace(row, sc) ==
    [row EXCEPT !.composite_score = sc.composite_score,
                !.sentiment_avg = sc.sentiment_avg,
                !.confidence_score = sc.confidence_score,
                !.total_reviews = sc.total_reviews,
                !.manual_rank = NullInt, !.is_featured = 0,
                !.is_published = 0, !.admin_notes = NULL,
                !.last_computed = clock]

\* UPDATE rankings SET composite_score, sentiment_avg, confidence_score,
\* total_reviews, last_computed WHERE id = row.id
UpdatedRankingRow(row, sc) ==
    [row EXCEPT !.composite_score = sc.composite_score,
                !.sentiment_avg = sc.sentiment_avg,
                !.confidence_score = sc.confidence_score,
                !.total_reviews = sc.total_reviews,
                !.last_computed = clock]

\* Variant: the existence check is dropped and every computation inserts.
Upsert_always_insert(rk, rid, sc) == rk \cup {NewRankingRow(rk, rid, sc)}

\* Variant: the UPDATE has no WHERE id = ... and rewrites every row.
Upsert_unkeyed(rk, rid, sc) ==
    IF \E x \in rk : x.restaurant_id = rid
    THEN {UpdatedRankingRow(x, sc) : x \in rk}
    ELSE rk \cup {NewRankingRow(rk, rid, sc)}

\* The check-then-write upsert of one restaurant.  SELECT ... LIMIT 1 returns
\* one of the restaurant's rows.
Upsert(rk, rid, sc) ==
    LET existing == {x \in rk : x.restaurant_id = rid}
    IN  IF existing # {}
        THEN LET existing_rank == CHOOSE x \in existing : TRUE
             IN  (rk \ {existing_rank}) \cup {UpdatedRankingRow(existing_rank, sc)}
        ELSE rk \cup {NewRankingRow(rk, rid, sc)}

RECURSIVE ScoreLoop_abort(_, _, _, _, _, _)
\* Variant: the try encloses the loop, so the first failing restaurant ends it.
ScoreLoop_abort(w, sr, rv, restaurant_ids, frid, acc) ==
    IF restaurant_ids = <<>> THEN acc
    ELSE LET rid == Head(restaurant_ids)
             sc == IF rid = frid THEN [ok |-> FALSE] ELSE Score(w, sr, rv, rid)
         IN  IF sc.ok
             THEN ScoreLoop_abort(w, sr, rv, Tail(restaurant_ids), frid,
                                  [acc EXCEPT !.rk = Upsert(acc.rk, rid, sc)])
             ELSE [acc EXCEPT !.failed = acc.failed \cup {rid}]

RECURSIVE ScoreLoop_no_rollback(_, _, _, _, _, _)
\* Variant: no rollback; the statements of a failed iteration stay in the
\* transaction and the next commit keeps them.
ScoreLoop_no_rollback(w, sr, rv, restaurant_ids, frid, acc) ==
    IF restaurant_ids = <<>> THEN acc
    ELSE LET rid == Head(restaurant_ids)
             sc == Score(w, sr, rv, rid)
             written == IF sc.ok THEN [acc EXCEPT !.rk = Upsert(acc.rk, rid, sc)]
                        ELSE acc
             next == IF sc.ok /\ rid # frid THEN written
                     ELSE [written EXCEPT !.failed = acc.failed \cup {rid}]
         IN  ScoreLoop_no_rollback(w, sr, rv, Tail(restaurant_ids), frid, next)

RECURSIVE ScoreLoop(_, _, _, _, _, _)
\* for rid in restaurant_ids: try: score, upsert, commit
\*                            except: rollback (the restaurant is skipped)
\* acc = [rk: the table so far, failed: the ids whose iteration raised].
\* frid is the restaurant whose iteration meets a store error (0: none).
ScoreLoop(w, sr, rv, restaurant_ids, frid, acc) ==
    IF restaurant_ids = <<>> THEN acc
    ELSE LET rid == Head(restaurant_ids)
             sc == IF rid = frid THEN [ok |-> FALSE] ELSE Score(w, sr, rv, rid)
             next == IF sc.ok
                     THEN [acc EXCEPT !.rk = Upsert(acc.rk, rid, sc)]
                     ELSE [acc EXCEPT !.failed = acc.failed \cup {rid}]
         IN  ScoreLoop(w, sr, rv, Tail(restaurant_ids), frid, next)

\* The results SELECT id ... FROM rankings ORDER BY composite_score DESC may
\* return: every arrangement of the rows with non-increasing scores (SQL
\* leaves the order of rows with equal scores open).
OrderByScoreDesc(rk) ==
    LET n == Cardinality(rk)
        ids == {x.id : x \in rk}
        score(i) == (CHOOSE x \in rk : x.id = i).composite_score
    IN  {o \in [1 .. n -> ids] :
            /\ \A i, j \in 1 .. n : i # j => o[i] # o[j]
            /\ \A i, j \in 1 .. n : i < j => score(o[i]) >= score(o[j])}

\* Variant: rank = i instead of i + 1.
Rerank_zero_based(rk, all_rankings) ==
    {[x EXCEPT !.auto_rank =
        (CHOOSE i \in DOMAIN all_rankings : all_rankings[i] = x.id) - 1] : x \in rk}

\* for i, row in enumerate(all_rankings): UPDATE rankings SET auto_rank = i + 1
Rerank(rk, all_rankings) ==
    {[x EXCEPT !.auto_rank = CHOOSE i \in DOMAIN all_rankings : all_rankings[i] = x.id]
        : x \in rk}

\* SELECT * FROM ranking_weights WHERE is_active = 1 LIMIT 1: one of the
\* active rows, or the built-in dict when there is none.
ActiveWeights(rw) ==
    LET active == {rw[i] : i \in {j \in DOMAIN rw : rw[j].is_active = 1}}
    IN  IF active = {} THEN {FallbackWeights} ELSE active

\* The lists without repetition over a set of ids.
ListsOf(S) ==
    {l \in UNION {[1 .. n -> S] : n \in 0 .. Cardinality(S)} :
        \A i, j \in DOMAIN l : i # j => l[i] # l[j]}

\* The lists over the subsets of S, in ascending id order.
IdLists(S) == {l \in ListsOf(S) : \A i, j \in DOMAIN l : i < j => l[i] < l[j]}

Range(l) == {l[i] : i \in DOMAIN l}

\* ------------------------------------------------------- region resolver
\* SELECT name FROM regions WHERE code = region_code; the code itself when
\* there is no such region.
RegionName(rg, region_code) ==
    LET region_row == {x \in rg : SqlEq(x.code, region_code)}
    IN  IF region_row # {} THEN (CHOOSE x \in region_row : TRUE).name
        ELSE region_code

\* Variant: the WHERE clause without is_active = 1.
RegionRestaurants_any_status(rs, rg, region_code) ==
    LET region_name == RegionName(rg, region_code)
    IN  {r \in DOMAIN rs :
            \/ SqlEq(rs[r].canton, region_code)
            \/ SqlEq(Lower(rs[r].canton), Lower(region_code))
            \/ SqlEq(Lower(rs[r].city), Lower(region_code))
            \/ SqlEq(Lower(rs[r].city), Lower(region_name))}

\* WHERE is_active = 1 AND (canton = code OR LOWER(canton) = LOWER(code)
\*        OR LOWER(city) = LOWER(code) OR LOWER(city) = LOWER(region_name))
RegionRestaurants(rs, rg, region_code) ==
    LET region_name == RegionName(rg, region_code)
    IN  {r \in DOMAIN rs :
            /\ rs[r].is_active = 1
            /\ \/ SqlEq(rs[r].canton, region_code)
               \/ SqlEq(Lower(rs[r].canton), Lower(region_code))
               \/ SqlEq(Lower(rs[r].city), Lower(region_code))
               \/ SqlEq(Lower(rs[r].city), Lower(region_name))}

\* Texts of the tables and requests.
sGE == <<"G", "E">>
sZH == <<"Z", "H">>
sGeneva == <<"G", "e", "v">>
sZurich == <<"Z", "u", "r">>

\* ------------------------------------------------------- handler bodies
\* Store faults a call can meet: none, get_db fails ("connect"), the weights
\* SELECT fails ("weights"), the region queries fail ("resolve"), a statement
\* of restaurant frid's iteration fails ("score"), the re-rank fails ("rerank").
Faults == {"none", "connect", "weights", "resolve", "score", "rerank"}

\* The outcomes [rk: the rankings table, raised: whether the call raised] of
\* compute_rankings_for_restaurants(restaurant_ids): get_db and the weights
\* SELECT are outside every try; each iteration and the re-rank are inside one
\* that rolls back and goes on.
BatchOutcomes(rw, sr, rv, rk, restaurant_ids, fault, frid) ==
    IF fault \in {"connect", "weights"}
    THEN {[rk |-> rk, raised |-> TRUE]}
    ELSE UNION {
        LET done == ScoreLoop(w, sr, rv, restaurant_ids,
                              IF fault = "score" THEN frid ELSE 0,
                              [rk |-> rk, failed |-> {}])
        IN  IF fault = "rerank"
            THEN {[rk |-> done.rk, raised |-> FALSE]}
            ELSE {[rk |-> Rerank(done.rk, all_rankings), raised |-> FALSE] :
                    all_rankings \in OrderByScoreDesc(done.rk)}
        : w \in ActiveWeights(rw)}

\* The orders in which a SELECT without ORDER BY may return the ids.
OrdersOf(ids) == {l \in ListsOf(ids) : Range(l) = ids}

\* Variant: the batch runs whatever ids holds.
RegionOutcomes_always_batch(rs, rg, rw, sr, rv, rk, region_code, fault, frid) ==
    IF fault = "connect"
    THEN {[rk |-> rk, raised |-> TRUE, ids |-> {}]}
    ELSE LET ids == IF fault = "resolve" THEN {}
                    ELSE RegionRestaurants(rs, rg, region_code)
         IN  {[rk |-> out.rk, raised |-> out.raised, ids |-> ids] :
                out \in UNION {BatchOutcomes(rw, sr, rv, rk, restaurant_ids,
                                             fault, frid) :
                                  restaurant_ids \in OrdersOf(ids)}}

\* The outcomes of compute_rankings(region_code): get_db is outside the try,
\* the region queries are inside one that logs and continues with ids = [];
\* the batch runs only when ids is not empty.
RegionOutcomes(rs, rg, rw, sr, rv, rk, region_code, fault, frid) ==
    IF fault = "connect"
    THEN {[rk |-> rk, raised |-> TRUE, ids |-> {}]}
    ELSE LET ids == IF fault = "resolve" THEN {}
                    ELSE RegionRestaurants(rs, rg, region_code)
         IN  IF ids # {}
             THEN {[rk |-> out.rk, raised |-> out.raised, ids |-> ids] :
                    out \in UNION {BatchOutcomes(rw, sr, rv, rk, restaurant_ids,
                                                 fault, frid) :
                                      restaurant_ids \in OrdersOf(ids)}}
             ELSE {[rk |-> rk, raised |-> FALSE, ids |-> ids]}

\* ---------------------------------------------------------------- actions
\* The record of a call; region_code and ids are compute_rankings' argument
\* and the ids it resolved, or the region, the restaurant_ids and the top_n of
\* a publication.
Called(op, fault, raised) ==
    [op |-> op, fault |-> fault, raised |-> raised,
     region_code |-> NullText, ids |-> {}, top_n |-> NullInt]

\* A call meets the fault it is given: the failing iteration frid is one of
\* the batch, and there is none (frid = 0) under any other fault.
ScoreFaultMet(fault, frid, ids) ==
    IF fault = "score" THEN frid \in ids ELSE frid = 0

\* compute_rankings_for_restaurants(restaurant_ids)
compute_rankings_for_restaurants(restaurant_ids, fault, frid) ==
    /\ fault # "resolve"
    /\ ScoreFaultMet(fault, frid, Range(restaurant_ids))
    /\ \E out \in BatchOutcomes(ranking_weights, source_ratings, reviews, rankings,
                             restaurant_ids, fault, frid) :
          /\ rankings' = out.rk
          /\ call' = Called("compute_rankings_for_restaurants", fault, out.raised)
          /\ UNCHANGED <<sentiment_vars, curation_vars, restaurants, regions, source_ratings, reviews,
                         ranking_weights>>

\* compute_rankings(region_code)
compute_rankings(region_code, fault, frid) ==
    /\ ScoreFaultMet(fault, frid,
                     RegionRestaurants(restaurants, regions, region_code))
    /\ fault \in {"weights", "rerank"}
          => RegionRestaurants(restaurants, regions, region_code) # {}
    /\ \E out \in RegionOutcomes(restaurants, regions, ranking_weights,
                                 source_ratings, reviews, rankings, region_code,
                                 fault, frid) :
          /\ rankings' = out.rk
          /\ call' = [Called("compute_rankings", fault, out.raised)
                         EXCEPT !.region_code = region_code, !.ids = out.ids]
          /\ UNCHANGED <<sentiment_vars, curation_vars, restaurants, regions, source_ratings, reviews,
                         ranking_weights>>

\* Variant: SET column = new, without COALESCE.
Coalesce_overwrite(new, old, null) == new

\* COALESCE(new, old)
Coalesce(new, old, null) == IF new # null THEN new ELSE old

\* PUT /api/rankings/<rid>
update_ranking(rid, data) ==
    /\ rankings' =
         {IF x.restaurant_id = rid
          THEN [x EXCEPT !.manual_rank = Coalesce(data.manual_rank, @, NullInt),
                         !.is_featured = Coalesce(data.is_featured, @, NullInt),
                         !.is_published = Coalesce(data.is_published, @, NullInt),
                         !.admin_notes = Coalesce(data.admin_notes, @, NULL)]
          ELSE x : x \in rankings}
    /\ call' = Called("update_ranking", "none", FALSE)
    /\ UNCHANGED <<sentiment_vars, curation_vars, restaurants, regions, source_ratings, reviews, ranking_weights>>

\* POST /api/ranking/weights: UPDATE ranking_weights SET ... WHERE is_active = 1
save_ranking_weights(data) ==
    /\ ranking_weights' =
         [i \in DOMAIN ranking_weights |->
            IF ranking_weights[i].is_active = 1
            THEN [ranking_weights[i] EXCEPT
                    !.weight_google = data.weight_google,
                    !.weight_yelp = data.weight_yelp,
                    !.weight_tripadvisor = data.weight_tripadvisor,
                    !.weight_sentiment = data.weight_sentiment,
                    !.min_reviews_threshold = data.min_reviews_threshold,
                    !.custom_weights = data.custom_provider_weights]
            ELSE ranking_weights[i]]
    /\ call' = Called("save_ranking_weights", "none", FALSE)
    /\ UNCHANGED <<sentiment_vars, curation_vars, restaurants, regions, source_ratings, reviews, rankings>>

\* init_db at application start-up: INSERT OR IGNORE INTO ranking_weights
\* (name) VALUES ('default').  No unique key covers name, so nothing is ignored.
init_db ==
    /\ Len(ranking_weights) < MaxWeightRows
    /\ ranking_weights' = Append(ranking_weights, DefaultWeightsRow)
    /\ call' = Called("init_db", "none", FALSE)
    /\ UNCHANGED <<sentiment_vars, curation_vars, restaurants, regions, source_ratings, reviews, rankings>>

\* The demo regions (code, name) of load_demo_data.
DemoRegions ==
    <<[code |-> sGE, name |-> sGeneva],
      [code |-> sZH, name |-> sZurich]>>

\* The restaurants table holds the demo restaurants already (the `existing`
\* branch of the name-and-city check): they are the rows of the first demo
\* region.
DemoRestaurants(rs) ==
    {r \in DOMAIN rs : rs[r].canton = DemoRegions[1].code
                       /\ rs[r].city = DemoRegions[1].name}

\* The values random.uniform / random.randint draw for a source rating.
DemoRatings == {<<45, 200>>, <<48, 50>>}

RECURSIVE DemoRankings(_, _, _, _, _, _, _)
\* for code in demo_regions: try: compute_rankings(code) except: errors.append
\* The rankings tables the loop can leave, from the tables rks.
DemoRankings(rs, rg, rw, sr, rv, rks, i) ==
    IF i > Len(DemoRegions) THEN rks
    ELSE DemoRankings(rs, rg, rw, sr, rv,
            UNION {{out.rk : out \in RegionOutcomes(rs, rg, rw, sr, rv, rk,
                                                    DemoRegions[i].code, "none", 0)} :
                     rk \in rks},
            i + 1)

\* POST /api/demo/load: upsert the demo regions, give every demo restaurant a
\* rating of the three builtin sources, insert a default weights row when no
\* row is active, then compute the rankings of every demo region.
load_demo_data ==
    \E t \in DemoRatings :
        LET codes == {DemoRegions[i].code : i \in DOMAIN DemoRegions}
            rg == {x \in regions : x.code \notin codes}
                    \cup {DemoRegions[i] : i \in DOMAIN DemoRegions}
            demo == DemoRestaurants(restaurants)
            sr == {x \in source_ratings :
                      ~(x.restaurant_id \in demo
                        /\ x.source \in {"google", "yelp", "tripadvisor"})}
                    \cup {[restaurant_id |-> r, source |-> src,
                           avg_rating |-> t[1], review_count |-> t[2]] :
                            r \in demo, src \in {"google", "yelp", "tripadvisor"}}
            rw == IF \E i \in DOMAIN ranking_weights :
                        ranking_weights[i].is_active = 1
                  THEN ranking_weights
                  ELSE Append(ranking_weights, DefaultWeightsRow)
        IN  /\ regions' = rg
            /\ source_ratings' = sr
            /\ ranking_weights' = rw
            /\ rankings' \in DemoRankings(restaurants, rg, rw, sr, reviews,
                                          {rankings}, 1)
            /\ call' = Called("load_demo_data", "none", FALSE)
            /\ UNCHANGED <<sentiment_vars, curation_vars, restaurants, reviews>>

\* ------------------------------------------------------------- curation
\* The restaurants a publication of `region` covers: canton = region OR
\* LOWER(canton) = LOWER(region) OR LOWER(city) = LOWER(region), active or
\* not.
PublishRegion(rs, region) ==
    {r \in DOMAIN rs :
        \/ SqlEq(rs[r].canton, region)
        \/ SqlEq(Lower(rs[r].canton), Lower(region))
        \/ SqlEq(Lower(rs[r].city), Lower(region))}

\* Variant: ORDER BY rk.auto_rank.
RankKey_auto(x) == x.auto_rank

\* COALESCE(rk.manual_rank, rk.auto_rank)
RankKey(x) == Coalesce(x.manual_rank, x.auto_rank, NullInt)

\* SELECT rk.restaurant_id FROM rankings rk JOIN restaurants r ... WHERE (the
\* region) ORDER BY COALESCE(rk.manual_rank, rk.auto_rank) LIMIT top_n: the
\* restaurant ids of the first top_n rows of any arrangement with
\* non-decreasing keys.
TopOfRegion(rs, rk, region, top_n) ==
    LET rows == {x \in rk : x.restaurant_id \in PublishRegion(rs, region)}
        n == Cardinality(rows)
        sorted == {o \in [1 .. n -> rows] :
                     /\ \A i, j \in 1 .. n : i # j => o[i] # o[j]
                     /\ \A i, j \in 1 .. n : i < j => RankKey(o[i]) <= RankKey(o[j])}
    IN  {{o[i].restaurant_id : i \in {j \in 1 .. n : j <= top_n}} : o \in sorted}

\* The rankings table after UPDATE rankings SET is_published = 0 WHERE
\* restaurant_id IN (the region) and UPDATE rankings SET is_published = 1
\* WHERE restaurant_id IN published.
Published(rs, rk, region, published) ==
    {[x EXCEPT !.is_published =
        IF x.restaurant_id \in published THEN 1
        ELSE IF x.restaurant_id \in PublishRegion(rs, region) THEN 0
        ELSE @] : x \in rk}

\* POST /api/rankings/publish with region, top_n and restaurant_ids (the
\* empty set when the body has none); a body without region is refused.
publish_rankings(region, top_n, restaurant_ids) ==
    /\ IF region = NullText
       THEN UNCHANGED rankings
       ELSE IF restaurant_ids # {}
       THEN rankings' = Published(restaurants, rankings, region, restaurant_ids)
       ELSE \E published \in TopOfRegion(restaurants, rankings, region, top_n) :
               rankings' = Published(restaurants, rankings, region, published)
    /\ call' = [Called("publish_rankings", "none", FALSE)
                   EXCEPT !.region_code = region, !.ids = restaurant_ids,
                          !.top_n = top_n]
    /\ UNCHANGED <<sentiment_vars, curation_vars, restaurants, regions, source_ratings,
                   reviews, ranking_weights>>

\* The invocations of compute_rankings_for_restaurants that run next to each
\* other.
Invocations == {"a", "b"}

\* An invocation that has not been called.
IdleBatch ==
    [pc |-> "idle", w |-> FallbackWeights, todo |-> <<>>, existing_rank |-> 0,
     sc |-> [ok |-> FALSE], all_rankings |-> <<>>, scored |-> <<>>]

\* No restaurant excluded, no region pushed automatically, every review as
\* old as the clock, no invocation in flight.
NoCuration ==
    /\ is_excluded = [r \in RIds |-> 0]
    /\ auto_push = {}
    /\ clock = 0
    /\ review_created_at = [r \in RIds |-> [i \in DOMAIN reviews[r] |-> 0]]
    /\ batches = [p \in Invocations |-> IdleBatch]

\* ------------------------------------------- invocations side by side
\* compute_rankings_for_restaurants statement by statement, each invocation on
\* a connection of its own: what an invocation commits is what the other
\* reads.  An invocation's record holds its position pc, its local variables
\* w, existing_rank, all_rankings, the ids it has still to score (todo, the
\* first being the one at hand) with the values computed for it (sc), and
\* for every iteration done the weights it used next to the rows that were
\* active then (scored).

\* Variant: the weights are read again in every iteration.
BatchWeights_reread(b, rw) == ActiveWeights(rw)

\* The weights of an iteration: the local w, read before the loop.
BatchWeights(b, rw) == {b.w}

\* The call up to the loop: get_db and the weights SELECT.
CallBatch(p, restaurant_ids) ==
    /\ batches[p].pc = "idle"
    /\ \E w \in ActiveWeights(ranking_weights) :
          batches' = [batches EXCEPT ![p] =
                        [IdleBatch EXCEPT
                            !.pc = IF restaurant_ids = <<>> THEN "rerank" ELSE "score",
                            !.w = w, !.todo = restaurant_ids]]
    /\ UNCHANGED <<sentiment_vars, is_excluded, auto_push, clock, review_created_at,
                   restaurants, regions, source_ratings, reviews, ranking_weights,
                   rankings, call>>

\* The position after the iteration at hand.
AfterIteration(b) == IF Len(b.todo) > 1 THEN "score" ELSE "rerank"

\* One iteration up to the existence check: the reads of source_ratings and
\* reviews, the computation, SELECT id FROM rankings WHERE restaurant_id = rid
\* LIMIT 1.  An iteration that raises is rolled back and the loop goes on.
ScoreStep(p) ==
    LET b == batches[p]
        rid == Head(b.todo)
    IN  /\ b.pc = "score"
        /\ \E w \in BatchWeights(b, ranking_weights) :
              LET sc == Score(w, source_ratings, reviews, rid)
                  done == Append(b.scored,
                                 [rid |-> rid, w |-> w,
                                  active |-> ActiveWeights(ranking_weights)])
              IN  IF ~sc.ok
                  THEN batches' = [batches EXCEPT ![p] =
                                     [b EXCEPT !.pc = AfterIteration(b),
                                               !.todo = Tail(b.todo),
                                               !.scored = done]]
                  ELSE \E existing_rank \in
                            IF \E x \in rankings : x.restaurant_id = rid
                            THEN {x.id : x \in {y \in rankings : y.restaurant_id = rid}}
                            ELSE {0} :
                          batches' = [batches EXCEPT ![p] =
                                        [b EXCEPT !.pc = "write", !.sc = sc,
                                                  !.existing_rank = existing_rank,
                                                  !.scored = done]]
        /\ UNCHANGED <<sentiment_vars, is_excluded, auto_push, clock, review_created_at,
                       restaurants, regions, source_ratings, reviews, ranking_weights,
                       rankings, call>>

\* The rest of the iteration: UPDATE ... WHERE id = existing_rank or INSERT,
\* then commit.
WriteStep(p) ==
    LET b == batches[p]
        rid == Head(b.todo)
    IN  /\ b.pc = "write"
        /\ rankings' =
              IF b.existing_rank # 0
              THEN {IF x.id = b.existing_rank THEN UpdatedRankingRow(x, b.sc) ELSE x :
                      x \in rankings}
              ELSE rankings \cup {NewRankingRow(rankings, rid, b.sc)}
        /\ batches' = [batches EXCEPT ![p] =
                          [b EXCEPT !.pc = AfterIteration(b), !.todo = Tail(b.todo),
                                    !.sc = IdleBatch.sc, !.existing_rank = 0]]
        /\ UNCHANGED <<sentiment_vars, is_excluded, auto_push, clock, review_created_at,
                       restaurants, regions, source_ratings, reviews, ranking_weights,
                       call>>

\* The re-rank's SELECT id ... FROM rankings ORDER BY composite_score DESC.
RerankRead(p) ==
    /\ batches[p].pc = "rerank"
    /\ \E all_rankings \in OrderByScoreDesc(rankings) :
          batches' = [batches EXCEPT ![p].pc = "rank",
                                     ![p].all_rankings = all_rankings]
    /\ UNCHANGED <<sentiment_vars, is_excluded, auto_push, clock, review_created_at,
                   restaurants, regions, source_ratings, reviews, ranking_weights,
                   rankings, call>>

\* The re-rank's UPDATE rankings SET auto_rank = i + 1 WHERE id = the id of
\* row i, for the rows it read, its commit and the return.
RerankWrite(p) ==
    LET all_rankings == batches[p].all_rankings
    IN  /\ batches[p].pc = "rank"
        /\ rankings' =
              {IF x.id \in Range(all_rankings)
               THEN [x EXCEPT !.auto_rank =
                       CHOOSE i \in DOMAIN all_rankings : all_rankings[i] = x.id]
               ELSE x : x \in rankings}
        /\ batches' = [batches EXCEPT ![p].pc = "returned",
                                     ![p].all_rankings = <<>>]
        /\ call' = Called("compute_rankings_for_restaurants", "none", FALSE)
        /\ UNCHANGED <<sentiment_vars, is_excluded, auto_push, clock, review_created_at,
                       restaurants, regions, source_ratings, reviews, ranking_weights>>

\* ------------------------------------------------------ sentiment analyzer
\* The whitespace str.strip() removes.
IsSpace(c) == c \in {" ", "\t", "\n"}

Strip_nothing(s) == s

\* review_text.strip(): leading and trailing whitespace removed, inner
\* whitespace kept.
Strip(s) ==
    LET inked == {i \in DOMAIN s : ~IsSpace(s[i])}
    IN  IF inked = {} THEN <<>>
        ELSE SubSeq(s, CHOOSE i \in inked : \A j \in inked : i <= j,
                       CHOOSE i \in inked : \A j \in inked : i >= j)

\* "kw in text": kw occurs in text as a contiguous run of characters.
Contains(text, kw) ==
    \E i \in 0 .. (Len(text) - Len(kw)) : SubSeq(text, i + 1, i + Len(kw)) = kw

\* sum(1 for kw in words if kw in text_lower): every entry of the list counts,
\* a repeated one each time.
CountHits(words, text_lower) ==
    Cardinality({i \in DOMAIN words : Contains(text_lower, words[i])})

\* [kw.lower() for kw in words]
LowerAll(words) == [i \in DOMAIN words |-> Lower(words[i])]

\* The category names of aspect_keywords.
kFood == <<"f", "o", "o", "d">>
kService == <<"s", "e", "r", "v", "i", "c", "e">>
kAmbiance == <<"a", "m", "b", "i", "a", "n", "c", "e">>
kValue == <<"v", "a", "l", "u", "e">>

\* aspect_keywords: the builtin phrase triggers of the four categories.
aspect_keywords ==
    (kFood :>
       [positive |->
          <<<<"d", "e", "l", "i", "c", "i", "o", "u", "s">>,
            <<"t", "a", "s", "t", "y">>,
            <<"f", "r", "e", "s", "h">>,
            <<"f", "l", "a", "v", "o", "r", "f", "u", "l">>,
            <<"a", "m", "a", "z", "i", "n", "g", " ", "f", "o", "o", "d">>,
            <<"e", "x", "c", "e", "l", "l", "e", "n", "t", " ", "f", "o", "o", "d">>,
            <<"b", "e", "s", "t", " ", "f", "o", "o", "d">>,
            <<"g", "r", "e", "a", "t", " ", "f", "o", "o", "d">>,
            <<"g", "o", "o", "d", " ", "f", "o", "o", "d">>,
            <<"y", "u", "m", "m", "y">>,
            <<"s", "c", "r", "u", "m", "p", "t", "i", "o", "u", "s">>,
            <<"m", "o", "u", "t", "h", "-", "w", "a", "t", "e", "r", "i", "n", "g">>,
            <<"p", "e", "r", "f", "e", "c", "t", "l", "y", " ", "c", "o", "o", "k", "e", "d">>,
            <<"w", "e", "l", "l", " ", "s", "e", "a", "s", "o", "n", "e", "d">>,
            <<"a", "u", "t", "h", "e", "n", "t", "i", "c">>,
            <<"h", "o", "m", "e", "m", "a", "d", "e">>>>,
        negative |->
          <<<<"b", "l", "a", "n", "d">>,
            <<"t", "a", "s", "t", "e", "l", "e", "s", "s">>,
            <<"c", "o", "l", "d">>,
            <<"u", "n", "d", "e", "r", "c", "o", "o", "k", "e", "d">>,
            <<"o", "v", "e", "r", "c", "o", "o", "k", "e", "d">>,
            <<"s", "t", "a", "l", "e">>,
            <<"f", "r", "o", "z", "e", "n">>,
            <<"b", "a", "d", " ", "f", "o", "o", "d">>,
            <<"t", "e", "r", "r", "i", "b", "l", "e", " ", "f", "o", "o", "d">>,
            <<"d", "i", "s", "g", "u", "s", "t", "i", "n", "g">>,
            <<"i", "n", "e", "d", "i", "b", "l", "e">>,
            <<"r", "a", "w">>,
            <<"b", "u", "r", "n", "t">>,
            <<"s", "o", "g", "g", "y">>,
            <<"t", "o", "o", " ", "s", "a", "l", "t", "y">>,
            <<"t", "o", "o", " ", "s", "w", "e", "e", "t">>,
            <<"g", "r", "e", "a", "s", "y">>,
            <<"d", "r", "y">>>>])
    @@
    (kService :>
       [positive |->
          <<<<"f", "r", "i", "e", "n", "d", "l", "y">>,
            <<"a", "t", "t", "e", "n", "t", "i", "v", "e">>,
            <<"h", "e", "l", "p", "f", "u", "l">>,
            <<"p", "r", "o", "f", "e", "s", "s", "i", "o", "n", "a", "l">>,
            <<"f", "a", "s", "t", " ", "s", "e", "r", "v", "i", "c", "e">>,
            <<"g", "r", "e", "a", "t", " ", "s", "e", "r", "v", "i", "c", "e">>,
            <<"e", "x", "c", "e", "l", "l", "e", "n", "t", " ", "s", "e", "r", "v", "i", "c", "e">>,
            <<"w", "o", "n", "d", "e", "r", "f", "u", "l", " ", "s", "t", "a", "f", "f">>,
            <<"p", "o", "l", "i", "t", "e">>,
            <<"w", "e", "l", "c", "o", "m", "i", "n", "g">>,
            <<"a", "c", "c", "o", "m", "m", "o", "d", "a", "t", "i", "n", "g">>,
            <<"q", "u", "i", "c", "k", " ", "s", "e", "r", "v", "i", "c", "e">>,
            <<"e", "f", "f", "i", "c", "i", "e", "n", "t">>,
            <<"k", "n", "o", "w", "l", "e", "d", "g", "e", "a", "b", "l", "e">>>>,
        negative |->
          <<<<"s", "l", "o", "w">>,
            <<"r", "u", "d", "e">>,
            <<"i", "g", "n", "o", "r", "e", "d">>,
            <<"u", "n", "f", "r", "i", "e", "n", "d", "l", "y">>,
            <<"b", "a", "d", " ", "s", "e", "r", "v", "i", "c", "e">>,
            <<"t", "e", "r", "r", "i", "b", "l", "e", " ", "s", "e", "r", "v", "i", "c", "e">>,
            <<"p", "o", "o", "r", " ", "s", "e", "r", "v", "i", "c", "e">>,
            <<"w", "a", "i", "t", "e", "d", " ", "f", "o", "r", "e", "v", "e", "r">>,
            <<"i", "n", "a", "t", "t", "e", "n", "t", "i", "v", "e">>,
            <<"d", "i", "s", "m", "i", "s", "s", "i", "v", "e">>,
            <<"a", "r", "r", "o", "g", "a", "n", "t">>,
            <<"u", "n", "p", "r", "o", "f", "e", "s", "s", "i", "o", "n", "a", "l">>,
            <<"f", "o", "r", "g", "o", "t", "t", "e", "n">>,
            <<"m", "i", "s", "t", "a", "k", "e">>,
            <<"w", "r", "o", "n", "g", " ", "o", "r", "d", "e", "r">>>>])
    @@
    (kAmbiance :>
       [positive |->
          <<<<"c", "o", "z", "y">>,
            <<"r", "o", "m", "a", "n", "t", "i", "c">>,
            <<"b", "e", "a", "u", "t", "i", "f", "u", "l">>,
            <<"l", "o", "v", "e", "l", "y", " ", "a", "t", "m", "o", "s", "p", "h", "e", "r", "e">>,
            <<"g", "r", "e", "a", "t", " ", "a", "m", "b", "i", "a", "n", "c", "e">>,
            <<"c", "l", "e", "a", "n">>,
            <<"n", "i", "c", "e", " ", "d", "e", "c", "o", "r">>,
            <<"c", "o", "m", "f", "o", "r", "t", "a", "b", "l", "e">>,
            <<"c", "h", "a", "r", "m", "i", "n", "g">>,
            <<"e", "l", "e", "g", "a", "n", "t">>,
            <<"m", "o", "d", "e", "r", "n">>,
            <<"s", "t", "y", "l", "i", "s", "h">>,
            <<"g", "r", "e", "a", "t", " ", "v", "i", "e", "w">>,
            <<"p", "e", "a", "c", "e", "f", "u", "l">>,
            <<"r", "e", "l", "a", "x", "i", "n", "g">>>>,
        negative |->
          <<<<"n", "o", "i", "s", "y">>,
            <<"l", "o", "u", "d">>,
            <<"d", "i", "r", "t", "y">>,
            <<"c", "r", "a", "m", "p", "e", "d">>,
            <<"s", "m", "e", "l", "l", "y">>,
            <<"u", "n", "c", "o", "m", "f", "o", "r", "t", "a", "b", "l", "e">>,
            <<"d", "a", "r", "k">>,
            <<"c", "r", "o", "w", "d", "e", "d">>,
            <<"c", "h", "a", "o", "t", "i", "c">>,
            <<"r", "u", "n", "-", "d", "o", "w", "n">>,
            <<"d", "a", "t", "e", "d">>,
            <<"s", "t", "u", "f", "f", "y">>,
            <<"c", "o", "l", "d">>,
            <<"h", "o", "t">>>>])
    @@
    (kValue :>
       [positive |->
          <<<<"w", "o", "r", "t", "h", " ", "i", "t">>,
            <<"g", "o", "o", "d", " ", "v", "a", "l", "u", "e">>,
            <<"r", "e", "a", "s", "o", "n", "a", "b", "l", "e">>,
            <<"a", "f", "f", "o", "r", "d", "a", "b", "l", "e">>,
            <<"g", "e", "n", "e", "r", "o", "u", "s", " ", "p", "o", "r", "t", "i", "o", "n", "s">>,
            <<"g", "r", "e", "a", "t", " ", "p", "r", "i", "c", "e">>,
            <<"c", "h", "e", "a", "p">>,
            <<"b", "a", "r", "g", "a", "i", "n">>,
            <<"b", "a", "n", "g", " ", "f", "o", "r", " ", "b", "u", "c", "k">>,
            <<"f", "a", "i", "r", " ", "p", "r", "i", "c", "e">>>>,
        negative |->
          <<<<"o", "v", "e", "r", "p", "r", "i", "c", "e", "d">>,
            <<"e", "x", "p", "e", "n", "s", "i", "v", "e">>,
            <<"r", "i", "p", "-", "o", "f", "f">>,
            <<"t", "i", "n", "y", " ", "p", "o", "r", "t", "i", "o", "n", "s">>,
            <<"s", "m", "a", "l", "l", " ", "p", "o", "r", "t", "i", "o", "n", "s">>,
            <<"n", "o", "t", " ", "w", "o", "r", "t", "h">>,
            <<"t", "o", "o", " ", "e", "x", "p", "e", "n", "s", "i", "v", "e">>,
            <<"h", "i", "g", "h", "w", "a", "y", " ", "r", "o", "b", "b", "e", "r", "y">>,
            <<"p", "o", "o", "r", " ", "v", "a", "l", "u", "e">>>>])

\* positive_words of the keyword heuristic.
positive_words ==
    <<<<"a", "m", "a", "z", "i", "n", "g">>,
      <<"e", "x", "c", "e", "l", "l", "e", "n", "t">>,
      <<"g", "r", "e", "a", "t">>,
      <<"w", "o", "n", "d", "e", "r", "f", "u", "l">>,
      <<"f", "a", "n", "t", "a", "s", "t", "i", "c">>,
      <<"p", "e", "r", "f", "e", "c", "t">>,
      <<"l", "o", "v", "e">>,
      <<"l", "o", "v", "e", "d">>,
      <<"b", "e", "s", "t">>,
      <<"d", "e", "l", "i", "c", "i", "o", "u", "s">>,
      <<"f", "r", "e", "s", "h">>,
      <<"f", "r", "i", "e", "n", "d", "l", "y">>,
      <<"r", "e", "c", "o", "m", "m", "e", "n", "d">>,
      <<"o", "u", "t", "s", "t", "a", "n", "d", "i", "n", "g">>,
      <<"s", "u", "p", "e", "r", "b">>,
      <<"i", "n", "c", "r", "e", "d", "i", "b", "l", "e">>,
      <<"a", "w", "e", "s", "o", "m", "e">>,
      <<"b", "r", "i", "l", "l", "i", "a", "n", "t">>,
      <<"f", "a", "b", "u", "l", "o", "u", "s">>,
      <<"e", "x", "c", "e", "p", "t", "i", "o", "n", "a", "l">>,
      <<"i", "m", "p", "r", "e", "s", "s", "i", "v", "e">>>>

\* negative_words of the keyword heuristic.
negative_words ==
    <<<<"t", "e", "r", "r", "i", "b", "l", "e">>,
      <<"a", "w", "f", "u", "l">>,
      <<"h", "o", "r", "r", "i", "b", "l", "e">>,
      <<"b", "a", "d">>,
      <<"w", "o", "r", "s", "t">>,
      <<"d", "i", "s", "a", "p", "p", "o", "i", "n", "t", "i", "n", "g">>,
      <<"p", "o", "o", "r">>,
      <<"m", "e", "d", "i", "o", "c", "r", "e">>,
      <<"d", "i", "s", "g", "u", "s", "t", "i", "n", "g">>,
      <<"r", "u", "d", "e">>,
      <<"s", "l", "o", "w">>,
      <<"c", "o", "l", "d">>,
      <<"o", "v", "e", "r", "p", "r", "i", "c", "e", "d">>,
      <<"n", "e", "v", "e", "r">>,
      <<"a", "v", "o", "i", "d">>,
      <<"w", "a", "s", "t", "e">>,
      <<"t", "a", "s", "t", "e", "l", "e", "s", "s">>,
      <<"b", "l", "a", "n", "d">>,
      <<"d", "i", "r", "t", "y">>,
      <<"u", "n", "c", "o", "m", "f", "o", "r", "t", "a", "b", "l", "e">>,
      <<"u", "n", "p", "r", "o", "f", "e", "s", "s", "i", "o", "n", "a", "l">>>>

\* An empty aspects map.
NoAspects == [a \in {} |-> 0]

RECURSIVE ListOf(_)
\* cur.fetchall(): the rows of a result set as a list.  The order among rows
\* of one category and sentiment is the store's; the analyzer only counts
\* list entries, so one order stands for all.
ListOf(S) ==
    IF S = {} THEN <<>>
    ELSE LET x == CHOOSE y \in S : TRUE IN <<x>> \o ListOf(S \ {x})

\* get_custom_keywords_from_db(): {category: {positive: [...], negative:
\* [...]}} of the active sentiment_keywords rows, {} when the store fails.
get_custom_keywords_from_db(table, fault) ==
    IF fault THEN [c \in {} |-> [positive |-> <<>>, negative |-> <<>>]]
    ELSE LET rows == {r \in table : r.is_active = 1}
             of(c, s) == ListOf({r \in rows : Lower(r.category) = c
                                              /\ r.sentiment = s})
             keywords(c, s) == [i \in DOMAIN of(c, s) |-> Lower(of(c, s)[i].keyword)]
         IN  [c \in {Lower(r.category) : r \in rows} |->
                [positive |-> keywords(c, "positive"),
                 negative |-> keywords(c, "negative")]]

\* aspect_keywords after the merge of the custom keywords: a custom keyword
\* is appended unless the list held it before the merge of its list began.
MergedKeywords(custom_keywords) ==
    LET builtin(c) == IF c \in DOMAIN aspect_keywords THEN aspect_keywords[c]
                      ELSE [positive |-> <<>>, negative |-> <<>>]
        merged(old, new) ==
            LET existing == {old[i] : i \in DOMAIN old}
                fresh(kw) == kw \notin existing
            IN  old \o SelectSeq(LowerAll(new), fresh)
    IN  [c \in DOMAIN aspect_keywords \cup DOMAIN custom_keywords |->
           IF c \in DOMAIN custom_keywords
           THEN [positive |-> merged(builtin(c).positive, custom_keywords[c].positive),
                 negative |-> merged(builtin(c).negative, custom_keywords[c].negative)]
           ELSE builtin(c)]

analyze_aspects_zero_filled(review_text, custom_keywords) ==
    LET text_lower == Lower(review_text)
        keywords == MergedKeywords(custom_keywords)
        positive_count(a) == CountHits(keywords[a].positive, text_lower)
        negative_count(a) == CountHits(keywords[a].negative, text_lower)
    IN  [a \in DOMAIN keywords |->
           IF positive_count(a) + negative_count(a) = 0 THEN 0
           ELSE RoundDiv((positive_count(a) - negative_count(a)) * 100,
                         positive_count(a) + negative_count(a))]

\* analyze_aspects(review_text, custom_keywords=...): aspect -> score in
\* hundredths, for the aspects with a hit only.
analyze_aspects(review_text, custom_keywords) ==
    LET text_lower == Lower(review_text)
        keywords == MergedKeywords(custom_keywords)
        positive_count(a) == CountHits(keywords[a].positive, text_lower)
        negative_count(a) == CountHits(keywords[a].negative, text_lower)
    IN  [a \in {x \in DOMAIN keywords :
                  positive_count(x) > 0 \/ negative_count(x) > 0} |->
           RoundDiv((positive_count(a) - negative_count(a)) * 100,
                    positive_count(a) + negative_count(a))]

\* A result record of the analyzer: polarity, subjectivity and confidence in
\* thousandths; raised tells that no record came back but an exception.
Result(polarity, subjectivity, label, confidence, aspects) ==
    [raised |-> FALSE, polarity |-> polarity, subjectivity |-> subjectivity,
     label |-> label, confidence |-> confidence, aspects |-> aspects]

Raised == [raised |-> TRUE]

\* analyze_sentiment_keywords(review_text, custom_keywords): the keyword
\* heuristic.  The label is taken from the polarity before it is rounded.
analyze_sentiment_keywords(review_text, custom_keywords) ==
    LET text_lower == Lower(review_text)
        cats == DOMAIN custom_keywords
        positive_count ==
            CountHits(positive_words, text_lower)
              + SumOver(cats, [c \in cats |->
                    CountHits(LowerAll(custom_keywords[c].positive), text_lower)])
        negative_count ==
            CountHits(negative_words, text_lower)
              + SumOver(cats, [c \in cats |->
                    CountHits(LowerAll(custom_keywords[c].negative), text_lower)])
        total == positive_count + negative_count
        label == IF 5 * (positive_count - negative_count) > total THEN "positive"
                 ELSE IF 5 * (positive_count - negative_count) < 0 - total
                      THEN "negative"
                 ELSE "neutral"
    IN  IF total = 0 THEN Result(0, 500, "neutral", 300, NoAspects)
        ELSE Result(RoundDiv((positive_count - negative_count) * 1000, total),
                    700, label,
                    IF total >= 5 THEN 1000 ELSE total * 200,
                    analyze_aspects(review_text, custom_keywords))

\* What the statistical model does with a text: the package is missing
\* (ImportError), it throws while analysing, or it returns a sentiment
\* (polarity, subjectivity in thousandths).
TextBlob(status, polarity, subjectivity) ==
    [status |-> status, polarity |-> polarity, subjectivity |-> subjectivity]

analyze_review_sentiment_uncaught(review_text, table, db_fault, textblob) ==
    IF review_text = <<>> \/ Len(Strip(review_text)) < 3
    THEN Result(0, 0, "neutral", 0, NoAspects)
    ELSE IF textblob.status = "throws" THEN Raised
    ELSE analyze_sentiment_keywords(review_text,
                                    get_custom_keywords_from_db(table, db_fault))

\* analyze_review_sentiment(review_text): custom_keywords is left to its
\* default by every caller and loaded from the sentiment_keywords table.
analyze_review_sentiment(review_text, table, db_fault, textblob) ==
    IF review_text = <<>> \/ Len(Strip(review_text)) < 3
    THEN Result(0, 0, "neutral", 0, NoAspects)
    ELSE LET custom_keywords == get_custom_keywords_from_db(table, db_fault)
             text_length == IF Len(review_text) < 200 THEN Len(review_text) ELSE 200
         IN  IF textblob.status = "missing"
             THEN analyze_sentiment_keywords(review_text, custom_keywords)
             ELSE IF textblob.status = "throws"
             THEN analyze_sentiment_keywords(review_text, custom_keywords)
             ELSE Result(textblob.polarity, textblob.subjectivity,
                         IF textblob.polarity > 200 THEN "positive"
                         ELSE IF textblob.polarity < 0 - 200 THEN "negative"
                         ELSE "neutral",
                         RoundDiv(textblob.subjectivity + 5 * text_length, 2),
                         analyze_aspects(review_text, custom_keywords))

combine_rating_and_text_sentiment_additive(star_rating, text_sentiment, text_weight) ==
    LET star_sentiment == (star_rating - 30) * 50
        effective_text_weight ==
            IF text_sentiment.confidence < 300
            THEN text_weight * text_sentiment.confidence
            ELSE text_weight * 1000
    IN  RoundDiv(star_sentiment * 100000
                   + text_sentiment.polarity * effective_text_weight, 100000)

combine_rating_and_text_sentiment_undamped(star_rating, text_sentiment, text_weight) ==
    LET star_sentiment == (star_rating - 30) * 50
        effective_text_weight == text_weight * 1000
    IN  RoundDiv(star_sentiment * (100000 - effective_text_weight)
                   + text_sentiment.polarity * effective_text_weight, 100000)

\* combine_rating_and_text_sentiment(star_rating, text_sentiment,
\* text_weight): star_rating in tenths, text_weight in hundredths, the score
\* in thousandths.  The effective text weight is kept in units of 1/100000.
combine_rating_and_text_sentiment(star_rating, text_sentiment, text_weight) ==
    LET star_sentiment == (star_rating - 30) * 50
        effective_text_weight ==
            IF text_sentiment.confidence < 300
            THEN text_weight * text_sentiment.confidence
            ELSE text_weight * 1000
    IN  RoundDiv(star_sentiment * (100000 - effective_text_weight)
                   + text_sentiment.polarity * effective_text_weight, 100000)

\* The result field of a call that has not returned.
NoResult == Result(NullInt, NullInt, NULL, NullInt, NoAspects)

\* No keyword configured, no analyzer or combiner call at hand.
NoSentimentCall ==
    /\ sentiment_keywords = {}
    /\ analysis = [done |-> TRUE, review_text |-> <<>>, db_fault |-> FALSE,
                   textblob |-> TextBlob("missing", 0, 0), result |-> NoResult]
    /\ combined = [done |-> TRUE, star_rating |-> 30,
                   text_sentiment |-> [polarity |-> 0, confidence |-> 0],
                   text_weight |-> 50, score |-> NullInt]

\* analyze_review_sentiment applied to the text at hand.
Analyze ==
    /\ analysis.done = FALSE
    /\ LET result == analyze_review_sentiment(analysis.review_text,
                        sentiment_keywords, analysis.db_fault, analysis.textblob)
       IN  /\ analysis' = [analysis EXCEPT !.done = TRUE, !.result = result]
           /\ call' = Called("analyze_review_sentiment", "none", result.raised)
    /\ UNCHANGED <<curation_vars, restaurants, regions, source_ratings, reviews,
                   ranking_weights, rankings, sentiment_keywords, combined>>

\* combine_rating_and_text_sentiment applied to the rating and sentiment at
\* hand.
Combine ==
    /\ combined.done = FALSE
    /\ combined' = [combined EXCEPT
                      !.done = TRUE,
                      !.score = combine_rating_and_text_sentiment(
                                    combined.star_rating, combined.text_sentiment,
                                    combined.text_weight)]
    /\ call' = Called("combine_rating_and_text_sentiment", "none", FALSE)
    /\ UNCHANGED <<curation_vars, restaurants, regions, source_ratings, reviews,
                   ranking_weights, rankings, sentiment_keywords, analysis>>

\* ------------------------------------------- exclusion and daily tasks
\* POST /api/restaurants/<rid>/exclude: UPDATE restaurants SET is_excluded = 1,
\* UPDATE rankings SET is_published = 0 WHERE restaurant_id = rid.
exclude_restaurant(rid) ==
    /\ is_excluded' = [is_excluded EXCEPT ![rid] = 1]
    /\ rankings' = {IF x.restaurant_id = rid THEN [x EXCEPT !.is_published = 0]
                    ELSE x : x \in rankings}
    /\ call' = Called("exclude_restaurant", "none", FALSE)
    /\ UNCHANGED <<sentiment_vars, auto_push, clock, review_created_at, batches,
                   restaurants, regions, source_ratings, reviews, ranking_weights>>

\* POST /api/restaurants/<rid>/include: UPDATE restaurants SET is_excluded = 0.
include_restaurant(rid) ==
    /\ is_excluded' = [is_excluded EXCEPT ![rid] = 0]
    /\ call' = Called("include_restaurant", "none", FALSE)
    /\ UNCHANGED <<sentiment_vars, auto_push, clock, review_created_at, batches,
                   restaurants, regions, source_ratings, reviews, ranking_weights,
                   rankings>>

\* The last time the model's clock shows.
MaxClock == 2

\* POST /api/reviews/user for restaurant rid, some time after the last event:
\* the text is analyzed (no statistical model installed), combined with the
\* star rating under the default text weight 0.5 and stored with
\* created_at = now.
add_user_review(rid, rating, review_text) ==
    /\ clock < MaxClock
    /\ clock' = clock + 1
    /\ LET text_sentiment == analyze_review_sentiment(review_text, sentiment_keywords,
                                  FALSE, TextBlob("missing", 0, 0))
           combined_sentiment == combine_rating_and_text_sentiment(rating,
                                     text_sentiment, 50)
       IN  reviews' = [reviews EXCEPT ![rid] = Append(@, combined_sentiment)]
    /\ review_created_at' = [review_created_at EXCEPT ![rid] = Append(@, clock')]
    /\ call' = Called("add_user_review", "none", FALSE)
    /\ UNCHANGED <<sentiment_vars, is_excluded, auto_push, batches,
                   restaurants, regions, source_ratings, ranking_weights, rankings>>

\* Step 1 of run_daily_tasks: SELECT DISTINCT r.id ... FROM restaurants r JOIN
\* reviews rev LEFT JOIN rankings rk WHERE rev.created_at >
\* COALESCE(rk.last_computed, '1970-01-01') AND r.is_active = 1.
ChangedRestaurants(rs, created_at, rk) ==
    {r \in DOMAIN rs :
        /\ rs[r].is_active = 1
        /\ \E i \in DOMAIN created_at[r] :
              IF \E x \in rk : x.restaurant_id = r
              THEN \E x \in rk : x.restaurant_id = r /\ created_at[r][i] > x.last_computed
              ELSE TRUE}

\* region = r['region_code'], the canton column.
RegionKey(row) == row.canton

\* regions_to_update: the changed ids grouped by region key; a restaurant
\* whose key is NULL or empty is in no group.
RegionsToUpdate(rs, changed) ==
    LET keys == {RegionKey(rs[r]) : r \in changed} \ {NullText, <<>>}
    IN  [k \in keys |-> {r \in changed : RegionKey(rs[r]) = k}]

RECURSIVE DailyBatches(_, _, _, _, _, _)
\* Step 2: for region_code, restaurant_ids in regions_to_update.items():
\* compute_rankings_selective(region_code, restaurant_ids).  The rankings
\* tables the loop can leave from rk, the groups `keys` being still to do.
DailyBatches(rw, sr, rv, rk, groups, keys) ==
    IF keys = {} THEN {rk}
    ELSE UNION {UNION {UNION {DailyBatches(rw, sr, rv, out.rk, groups, keys \ {k}) :
                                out \in BatchOutcomes(rw, sr, rv, rk, restaurant_ids,
                                                      "none", 0)} :
                         restaurant_ids \in OrdersOf(groups[k])} :
                  k \in keys}

RECURSIVE DailyPushes(_, _, _)
\* Step 3: for every region with auto_push that has a group, unpublish the
\* region and publish its first push_top_n rows.  The rankings tables the
\* loop can leave from rk, the regions regs being still to do.
DailyPushes(rs, rk, regs) ==
    IF regs = {} THEN {rk}
    ELSE UNION {UNION {DailyPushes(rs, Published(rs, rk, reg.code, published),
                                   regs \ {reg}) :
                         published \in TopOfRegion(rs, rk, reg.code, reg.push_top_n)} :
                  reg \in regs}

\* POST /api/daily/run
run_daily_tasks ==
    LET changed == ChangedRestaurants(restaurants, review_created_at, rankings)
        groups == RegionsToUpdate(restaurants, changed)
    IN  /\ IF changed = {}
           THEN UNCHANGED rankings
           ELSE \E rk \in DailyBatches(ranking_weights, source_ratings, reviews,
                                       rankings, groups, DOMAIN groups) :
                   rankings' \in DailyPushes(restaurants, rk,
                                    {reg \in auto_push : reg.code \in DOMAIN groups})
        /\ call' = [Called("run_daily_tasks", "none", FALSE) EXCEPT !.ids = changed]
        /\ UNCHANGED <<sentiment_vars, curation_vars, restaurants, regions,
                       source_ratings, reviews, ranking_weights>>

\* ----------------------------------------------------------------- inputs
sge == <<"g", "e">>
sGENEVA == <<"G", "E", "V">>
sXX == <<"x", "x">>

\* Request bodies of PUT /api/rankings/<rid>.
UpdateInputs ==
    {[manual_rank |-> 1, is_featured |-> 1, is_published |-> 1,
      admin_notes |-> "vip"],
     [manual_rank |-> NullInt, is_featured |-> NullInt, is_published |-> 0,
      admin_notes |-> NULL]}

\* A request body of POST /api/ranking/weights: a larger sentiment weight and
\* a custom provider weight for yelp that is not a number.
BadYelpWeights ==
    [weight_google |-> 25, weight_yelp |-> 20, weight_tripadvisor |-> 25,
     weight_sentiment |-> 20, min_reviews_threshold |-> 5,
     custom_provider_weights |-> [yelp |-> BadWeight]]

\* A request body that moves weight from google to the sentiment.
SentimentWeights ==
    [weight_google |-> 15, weight_yelp |-> 20, weight_tripadvisor |-> 25,
     weight_sentiment |-> 30, min_reviews_threshold |-> 5,
     custom_provider_weights |-> <<>>]

WeightInputs == {BadYelpWeights, SentimentWeights}

\* region_code arguments.
RegionInputs == {sGE, sge, sZH, sXX}

\* ------------------------------------------------------------------- Init
\* The database after the first start-up and the loads that created the
\* regions and the restaurants: odd ids are demo restaurants of GE, not rated
\* yet; even ids are imported into ZH with their google rating.
Init ==
    /\ restaurants = [r \in RIds |->
                        IF r % 2 = 1
                        THEN [is_active |-> 1, canton |-> sGE, city |-> sGeneva]
                        ELSE [is_active |-> 1, canton |-> sZH, city |-> sZurich]]
    /\ regions = {DemoRegions[i] : i \in DOMAIN DemoRegions}
    /\ source_ratings = {[restaurant_id |-> r, source |-> "google",
                          avg_rating |-> 45, review_count |-> 200] :
                            r \in {x \in RIds : x % 2 = 0}}
    /\ reviews = [r \in RIds |-> <<>>]
    /\ ranking_weights = <<DefaultWeightsRow>>
    /\ rankings = {}
    /\ call = Called("init_db", "none", FALSE)
    /\ NoSentimentCall
    /\ NoCuration

\* The ranking engine with a working store: batches over changing source
\* ratings and weights.
Next ==
    \/ \E restaurant_ids \in IdLists(RIds) :
          compute_rankings_for_restaurants(restaurant_ids, "none", 0)
    \/ \E region_code \in {sge, sXX} : compute_rankings(region_code, "none", 0)
    \/ \E data \in WeightInputs : save_ranking_weights(data)
    \/ load_demo_data

Spec == Init /\ [][Next]_vars

\* The ranking engine next to the curation of ranking rows.
NextAdmin ==
    \/ \E restaurant_ids \in IdLists(RIds) :
          compute_rankings_for_restaurants(restaurant_ids, "none", 0)
    \/ \E rid \in RIds, data \in UpdateInputs : update_ranking(rid, data)
    \/ load_demo_data

SpecAdmin == Init /\ [][NextAdmin]_vars

\* (canton, city) pairs as the import sources tag restaurants.
Places ==
    {<<sGE, sGeneva>>, <<sge, NullText>>, <<NullText, sGENEVA>>,
     <<sZH, sGE>>, <<NullText, Lower(sZH)>>}

\* The region resolver over restaurants tagged in every way, active or not;
\* the regions table has a row for GE only.
InitRegion ==
    /\ restaurants \in [RIds -> {[is_active |-> a, canton |-> p[1], city |-> p[2]] :
                                   a \in {0, 1}, p \in Places}]
    /\ regions = {[code |-> sGE, name |-> sGeneva]}
    /\ source_ratings = {[restaurant_id |-> r, source |-> "google",
                          avg_rating |-> 45, review_count |-> 200] : r \in RIds}
    /\ reviews = [r \in RIds |-> <<>>]
    /\ ranking_weights = <<DefaultWeightsRow>>
    /\ rankings = {}
    /\ call = Called("init_db", "none", FALSE)
    /\ NoSentimentCall
    /\ NoCuration

NextRegion ==
    \E region_code \in RegionInputs : compute_rankings(region_code, "none", 0)

SpecRegion == InitRegion /\ [][NextRegion]_vars

\* Weights rows the dashboard can have saved: the defaults, no weight on
\* google, a negative weight on google, a custom provider.
ScoreWeights ==
    {DefaultWeightsRow,
     [DefaultWeightsRow EXCEPT !.weight_google = 0],
     [DefaultWeightsRow EXCEPT !.weight_google = 0 - 25, !.weight_sentiment = 50],
     [DefaultWeightsRow EXCEPT !.custom_weights = [thefork |-> 30]]}

\* source_ratings rows of one restaurant: none, a rated builtin source, a
\* source without a configured weight, a builtin source without a rating,
\* two rated builtin sources.
ScoreSources(rid) ==
    {{},
     {[restaurant_id |-> rid, source |-> "google", avg_rating |-> 45,
       review_count |-> 200]},
     {[restaurant_id |-> rid, source |-> "thefork", avg_rating |-> 50,
       review_count |-> 10]},
     {[restaurant_id |-> rid, source |-> "google", avg_rating |-> NullInt,
       review_count |-> NullInt],
      [restaurant_id |-> rid, source |-> "yelp", avg_rating |-> 0,
       review_count |-> 3]},
     {[restaurant_id |-> rid, source |-> "google", avg_rating |-> 45,
       review_count |-> 200],
      [restaurant_id |-> rid, source |-> "yelp", avg_rating |-> 40,
       review_count |-> 50]}}

\* sentiment_score columns of one restaurant's reviews.
ScoreReviews == {<<>>, <<400>>, <<0 - 600, NullInt>>, <<400, 400, 0 - 300>>}

\* The scoring over restaurant 1 drawn from every kind of data, next to
\* restaurants with one google rating.
InitScore ==
    /\ restaurants = [r \in RIds |-> [is_active |-> 1, canton |-> sGE, city |-> sGeneva]]
    /\ regions = {[code |-> sGE, name |-> sGeneva]}
    /\ \E first \in ScoreSources(1) :
          source_ratings = first \cup
              {[restaurant_id |-> r, source |-> "google", avg_rating |-> 45,
                review_count |-> 200] : r \in RIds \ {1}}
    /\ \E rv \in ScoreReviews : reviews = [r \in RIds |-> IF r = 1 THEN rv ELSE <<>>]
    /\ \E w \in ScoreWeights : ranking_weights = <<w>>
    /\ rankings = {}
    /\ call = Called("init_db", "none", FALSE)
    /\ NoSentimentCall
    /\ NoCuration

NextScore ==
    \E restaurant_ids \in IdLists(RIds) :
        compute_rankings_for_restaurants(restaurant_ids, "none", 0)

SpecScore == InitScore /\ [][NextScore]_vars

\* (google, yelp) review counts of a restaurant: an import's google row with
\* any count, alone or next to a demo load's yelp row; NULL for no yelp row.
ReviewCounts ==
    {<<0, NullInt>>, <<4, NullInt>>, <<5, NullInt>>, <<9, NullInt>>,
     <<48, 50>>, <<49, 50>>}

\* Weights rows with the default threshold and a saved one.
ThresholdWeights ==
    {DefaultWeightsRow, [DefaultWeightsRow EXCEPT !.min_reviews_threshold = 10]}

\* The scoring over restaurants of every review count.
InitConfidence ==
    /\ restaurants = [r \in RIds |-> [is_active |-> 1, canton |-> sGE, city |-> sGeneva]]
    /\ regions = {[code |-> sGE, name |-> sGeneva]}
    /\ \E c \in [RIds -> ReviewCounts] :
          source_ratings =
              {[restaurant_id |-> r, source |-> "google", avg_rating |-> 45,
                review_count |-> c[r][1]] : r \in RIds}
              \cup {[restaurant_id |-> r, source |-> "yelp", avg_rating |-> 40,
                     review_count |-> c[r][2]] :
                       r \in {q \in RIds : c[q][2] # NullInt}}
    /\ reviews = [r \in RIds |-> <<>>]
    /\ \E w \in ThresholdWeights : ranking_weights = <<w>>
    /\ rankings = {}
    /\ call = Called("init_db", "none", FALSE)
    /\ NoSentimentCall
    /\ NoCuration

NextConfidence ==
    \E restaurant_ids \in IdLists(RIds) :
        compute_rankings_for_restaurants(restaurant_ids, "none", 0)

SpecConfidence == InitConfidence /\ [][NextConfidence]_vars

\* Start-ups, demo loads and weight saves.
NextWeights ==
    \/ init_db
    \/ load_demo_data
    \/ \E data \in WeightInputs : save_ranking_weights(data)

SpecWeights == Init /\ [][NextWeights]_vars

\* The ranking engine over a store that can fail.
NextFault ==
    \/ \E restaurant_ids \in IdLists(RIds), fault \in Faults, frid \in {0} \cup RIds :
          compute_rankings_for_restaurants(restaurant_ids, fault, frid)
    \/ \E region_code \in {sge, sXX}, fault \in Faults, frid \in {0} \cup RIds :
          compute_rankings(region_code, fault, frid)
    \/ save_ranking_weights(BadYelpWeights)
    \/ load_demo_data

SpecFault == Init /\ [][NextFault]_vars

\* Restaurants as the import sources tag them, by id: GE by its code and its
\* city, GE by a lower-case code alone, ZH with a city named as the code of
\* GE, no canton at all.
PublishPlaces ==
    <<<<sGE, sGeneva>>, <<sge, NullText>>, <<sZH, sGE>>, <<NullText, Lower(sZH)>>>>

\* The tagged restaurants, each with a google rating of its own.
TaggedRestaurants ==
    /\ restaurants = [r \in RIds |->
                        LET p == PublishPlaces[((r - 1) % Len(PublishPlaces)) + 1]
                        IN  [is_active |-> r % 2, canton |-> p[1], city |-> p[2]]]
    /\ regions = {DemoRegions[i] : i \in DOMAIN DemoRegions}
    /\ source_ratings = {[restaurant_id |-> r, source |-> "google",
                          avg_rating |-> 40 + r, review_count |-> 200] : r \in RIds}
    /\ reviews = [r \in RIds |-> <<>>]
    /\ ranking_weights = <<DefaultWeightsRow>>
    /\ rankings = {}
    /\ call = Called("init_db", "none", FALSE)
    /\ NoSentimentCall

InitPublish == TaggedRestaurants /\ NoCuration

\* Request bodies of PUT /api/rankings/<rid> that set manual_rank alone.
ManualRanks ==
    {[manual_rank |-> m, is_featured |-> NullInt, is_published |-> NullInt,
      admin_notes |-> NULL] : m \in {1, 3}}

\* top_n of a publication: none, fewer than the rows, the default.
TopNs == {0, 1, 2, 20}

\* Publications next to the engine and the curation of manual ranks.
NextPublish ==
    \/ \E restaurant_ids \in IdLists(RIds) :
          compute_rankings_for_restaurants(restaurant_ids, "none", 0)
    \/ \E rid \in RIds, data \in ManualRanks : update_ranking(rid, data)
    \/ \E region \in {sGE, sge, sZH, NullText}, top_n \in TopNs,
          restaurant_ids \in {{}, {1}} :
          publish_rankings(region, top_n, restaurant_ids)

SpecPublish == InitPublish /\ [][NextPublish]_vars

\* Two invocations, each called once with any list of ids, next to a save of
\* the weights, over the tagged restaurants.
NextSideBySide ==
    \/ \E p \in Invocations, restaurant_ids \in IdLists(RIds) :
          CallBatch(p, restaurant_ids)
    \/ \E p \in Invocations : ScoreStep(p)
    \/ \E p \in Invocations : WriteStep(p)
    \/ \E p \in Invocations : RerankRead(p)
    \/ \E p \in Invocations : RerankWrite(p)
    \/ save_ranking_weights(SentimentWeights)

SpecSideBySide == InitPublish /\ [][NextSideBySide]_vars

\* ------------------------------------------------------- sentiment inputs
\* Length of the review texts drawn character by character.
MaxLen == 3
\* Number of words of the review texts drawn word by word.
MaxWords == 2

\* The review texts of a letter and a blank.
ShortTexts == UNION {[1 .. n -> {"a", " "}] : n \in 0 .. MaxLen}

wGreat == <<"G", "r", "e", "a", "t">>
wCold == <<"c", "o", "l", "d">>
wCozy == <<"C", "O", "Z", "Y">>
wWine == <<"w", "i", "n", "e">>
wSlow == <<"s", "l", "o", "w">>
kDrinks == <<"d", "r", "i", "n", "k", "s">>

\* Words of a review: a positive word, words that are negative words and
\* aspect triggers, an aspect trigger that is no sentiment word, a word no
\* builtin list holds.
Vocabulary == {wGreat, wCold, wCozy, wWine, wSlow}

RECURSIVE Joined(_)
\* " ".join(words)
Joined(words) ==
    IF Len(words) = 1 THEN words[1]
    ELSE words[1] \o <<" ">> \o Joined(Tail(words))

\* The review texts of one to MaxWords words.
PhraseTexts == {Joined(l) : l \in UNION {[1 .. n -> Vocabulary] : n \in 1 .. MaxWords}}

Texts == ShortTexts \cup PhraseTexts

\* A sentiment_keywords row as add_sentiment_keyword stores it: keyword and
\* category stripped and lower-cased, sentiment one of positive and negative,
\* (keyword, category, language) unique.
KeywordRow(keyword, category, sentiment, language, is_active) ==
    [keyword |-> keyword, category |-> category, sentiment |-> sentiment,
     language |-> language, is_active |-> is_active]

\* Contents of the sentiment_keywords table: empty; a custom category with a
\* positive and a negative keyword, a keyword a builtin list holds and a
\* deactivated keyword; a keyword stored for two languages, a negative
\* keyword of its category and a keyword added to a builtin category.
KeywordTables ==
    {{},
     {KeywordRow(Lower(wCozy), kDrinks, "positive", "en", 1),
      KeywordRow(wCold, kDrinks, "negative", "en", 1),
      KeywordRow(wCold, kFood, "negative", "en", 1),
      KeywordRow(Lower(wGreat), kFood, "positive", "en", 0)},
     {KeywordRow(wWine, kDrinks, "positive", "en", 1),
      KeywordRow(wWine, kDrinks, "positive", "fr", 1),
      KeywordRow(wSlow, kDrinks, "negative", "en", 1),
      KeywordRow(Lower(wCozy), kService, "positive", "en", 1)}}

\* What the statistical model does: missing, throwing, or returning a
\* neutral, a positive or a negative sentiment.
TextBlobs ==
    {TextBlob("missing", 0, 0), TextBlob("throws", 0, 0), TextBlob("ok", 0, 0),
     TextBlob("ok", 500, 600), TextBlob("ok", 0 - 1000, 1000)}

\* The engine's tables next to a sentiment call: as after the first start-up.
EngineIdle ==
    /\ restaurants = [r \in RIds |->
                        [is_active |-> 1, canton |-> sGE, city |-> sGeneva]]
    /\ regions = {DemoRegions[i] : i \in DOMAIN DemoRegions}
    /\ source_ratings = {}
    /\ reviews = [r \in RIds |-> <<>>]
    /\ ranking_weights = <<DefaultWeightsRow>>
    /\ rankings = {}
    /\ call = Called("init_db", "none", FALSE)
    /\ NoCuration

\* The analyzer over every text, keyword table, store and model behaviour.
InitSentiment ==
    /\ EngineIdle
    /\ sentiment_keywords \in KeywordTables
    /\ analysis \in [done : {FALSE}, review_text : Texts, db_fault : BOOLEAN,
                     textblob : TextBlobs, result : {NoResult}]
    /\ combined = [done |-> TRUE, star_rating |-> 30,
                   text_sentiment |-> [polarity |-> 0, confidence |-> 0],
                   text_weight |-> 50, score |-> NullInt]

NextSentiment == Analyze

SpecSentiment == InitSentiment /\ [][NextSentiment]_vars

\* Star ratings in tenths, polarities and confidences in thousandths and
\* text weights in hundredths, with the ends of their ranges and the values
\* next to the confidence threshold.
StarRatings == {10, 20, 30, 40, 45, 50}
Polarities == {0 - 1000, 0 - 500, 0, 1, 900, 1000}
Confidences == {0, 1, 299, 300, 1000}
TextWeights == {0, 33, 50, 100}

\* The combiner over every rating, sentiment and text weight.
InitCombine ==
    /\ EngineIdle
    /\ sentiment_keywords = {}
    /\ analysis = [done |-> TRUE, review_text |-> <<>>, db_fault |-> FALSE,
                   textblob |-> TextBlob("missing", 0, 0), result |-> NoResult]
    /\ combined \in [done : {FALSE}, star_rating : StarRatings,
                     text_sentiment : [polarity : Polarities,
                                       confidence : Confidences],
                     text_weight : TextWeights, score : {NullInt}]

NextCombine == Combine

SpecCombine == InitCombine /\ [][NextCombine]_vars

\* ----------------------------------------------------------- daily inputs
\* Restaurants as their rows can be, by id: odd ids are active restaurants of
\* GE, tagged in upper or lower case; even ids have no canton (NULL or the
\* empty text) or are inactive.
DailyPlaces(r) ==
    IF r % 2 = 1
    THEN {[is_active |-> 1, canton |-> sGE, city |-> sGeneva],
          [is_active |-> 1, canton |-> sge, city |-> sGeneva]}
    ELSE {[is_active |-> 1, canton |-> NullText, city |-> sGE],
          [is_active |-> 1, canton |-> <<>>, city |-> sGE],
          [is_active |-> 0, canton |-> sGE, city |-> sGeneva]}

\* The restaurants, each with a google rating of its own; GE may be pushed
\* automatically, its first row only.
InitDaily ==
    /\ restaurants \in {rs \in [RIds -> UNION {DailyPlaces(r) : r \in RIds}] :
                           \A r \in RIds : rs[r] \in DailyPlaces(r)}
    /\ regions = {DemoRegions[i] : i \in DOMAIN DemoRegions}
    /\ source_ratings = {[restaurant_id |-> r, source |-> "google",
                          avg_rating |-> 40 + r, review_count |-> 200] : r \in RIds}
    /\ reviews = [r \in RIds |-> <<>>]
    /\ ranking_weights = <<DefaultWeightsRow>>
    /\ rankings = {}
    /\ call = Called("init_db", "none", FALSE)
    /\ NoSentimentCall
    /\ is_excluded = [r \in RIds |-> 0]
    /\ auto_push \in {{}, {[code |-> sGE, push_top_n |-> 1]}}
    /\ clock = 0
    /\ review_created_at = [r \in RIds |-> <<>>]
    /\ batches = [p \in Invocations |-> IdleBatch]

\* Reviews arriving over time and the daily run.
NextDaily ==
    \/ \E rid \in RIds : add_user_review(rid, 50, wGreat)
    \/ run_daily_tasks

SpecDaily == InitDaily /\ [][NextDaily]_vars

\* Exclusions next to the publications, the engine and the daily run.
NextExclude ==
    \/ \E rid \in RIds : exclude_restaurant(rid)
    \/ \E rid \in RIds : include_restaurant(rid)
    \/ \E top_n \in {1, 20} : publish_rankings(sGE, top_n, {})
    \/ compute_rankings(sGE, "none", 0)
    \/ \E rid \in RIds : add_user_review(rid, 50, wGreat)
    \/ run_daily_tasks

\* The tagged restaurants; GE is pushed automatically, its first row only.
InitExclude ==
    /\ TaggedRestaurants
    /\ is_excluded = [r \in RIds |-> 0]
    /\ auto_push = {[code |-> sGE, push_top_n |-> 1]}
    /\ clock = 0
    /\ review_created_at = [r \in RIds |-> <<>>]
    /\ batches = [p \in Invocations |-> IdleBatch]

SpecExclude == InitExclude /\ [][NextExclude]_vars

\* ----------------------------------------------------------------- claims
EngineCall == call.op \in {"compute_rankings", "compute_rankings_for_restaurants"}

\* auto_rank is a permutation of 1..N that follows composite_score descending.
AutoRankConsistent(rk) ==
    /\ {x.auto_rank : x \in rk} = 1 .. Cardinality(rk)
    /\ \A x, y \in rk : x.auto_rank = y.auto_rank => x = y
    /\ \A x, y \in rk : x.composite_score > y.composite_score
                          => x.auto_rank < y.auto_rank

\* C1: after compute_rankings_for_restaurants returns, the auto_rank values of
\* all ranking rows, also those of restaurants outside the batch, are a
\* permutation of 1..N, and a strictly higher composite_score has a strictly
\* smaller auto_rank.
C1_AutoRankPermutation ==
    (EngineCall /\ ~call.raised) => AutoRankConsistent(rankings)

\* A batch under the second weights left a row scored under the first weights
\* (4.300) in place and ranked it above the row it rescored (4.100).
C1_Witness ==
    /\ call.op = "compute_rankings_for_restaurants"
    /\ \E x, y \in rankings :
          /\ x.composite_score = 4300 /\ y.composite_score = 4100
          /\ x.auto_rank = 1 /\ y.auto_rank = 2

\* The score columns and the rank of every row agree in two tables.
SameScoresAndRanks(rk1, rk2) ==
    /\ {x.id : x \in rk1} = {x.id : x \in rk2}
    /\ \A x \in rk1 : \A y \in rk2 :
          x.id = y.id => /\ x.composite_score = y.composite_score
                         /\ x.confidence_score = y.confidence_score
                         /\ x.auto_rank = y.auto_rank

\* C2: compute_rankings_for_restaurants is idempotent: a second run on the same
\* ids, with no change to the data in between, leaves composite_score,
\* confidence_score and auto_rank of every row as the first run left them.
C2_Idempotent ==
    \A restaurant_ids \in IdLists(RIds) :
        \A first \in BatchOutcomes(ranking_weights, source_ratings, reviews,
                                   rankings, restaurant_ids, "none", 0) :
            \A second \in BatchOutcomes(ranking_weights, source_ratings, reviews,
                                        first.rk, restaurant_ids, "none", 0) :
                SameScoresAndRanks(first.rk, second.rk)

\* C3: every restaurant has at most one ranking row.
C3_OneRowPerRestaurant ==
    \A x, y \in rankings : x.restaurant_id = y.restaurant_id => x = y

\* The older row (smaller id) holds a score of the second weights (4.100) and
\* the newer row one of the first weights (4.300): the older row was inserted
\* before the weights changed and rescored in place after.
C3_Witness ==
    \E x, y \in rankings :
        /\ x.id < y.id
        /\ x.composite_score = 4100 /\ y.composite_score = 4300

\* C4: a batch leaves manual_rank, is_featured, is_published, is_pushed and
\* admin_notes of every existing ranking row as they were.
C4_CuratedColumnsKept ==
    [][call'.op = "compute_rankings_for_restaurants" =>
        \A x \in rankings : \E y \in rankings' :
            /\ y.id = x.id /\ y.restaurant_id = x.restaurant_id
            /\ y.manual_rank = x.manual_rank
            /\ y.is_featured = x.is_featured
            /\ y.is_published = x.is_published
            /\ y.is_pushed = x.is_pushed
            /\ y.admin_notes = x.admin_notes]_vars

\* A batch ran on a table that holds a curated row, and that row carries the
\* score of a rated restaurant.
C4_Witness ==
    /\ call.op = "compute_rankings_for_restaurants"
    /\ \E x \in rankings :
          /\ x.manual_rank = 1 /\ x.is_featured = 1 /\ x.is_published = 1
          /\ x.admin_notes = "vip" /\ x.composite_score = 4300

\* The row of rid holds the values sc.
Stored(rk, rid, sc) ==
    \E x \in rk : /\ x.restaurant_id = rid
                  /\ x.composite_score = sc.composite_score
                  /\ x.sentiment_avg = sc.sentiment_avg
                  /\ x.confidence_score = sc.confidence_score
                  /\ x.total_reviews = sc.total_reviews

\* C5: when the scoring or the writing of one restaurant of a batch fails
\* (its iteration raises, or the store fails on one of its statements), every
\* other restaurant of the batch is still scored and written, the call returns
\* and the re-rank runs over the whole table.
C5_FailureIsolated ==
    \A restaurant_ids \in IdLists(RIds) :
      \A w \in ActiveWeights(ranking_weights) :
        \A frid \in {0} \cup Range(restaurant_ids) :
          LET fails(rid) == rid = frid
                            \/ ~Score(w, source_ratings, reviews, rid).ok
          IN  \A out \in BatchOutcomes(<<w>>, source_ratings, reviews, rankings,
                                       restaurant_ids,
                                       IF frid = 0 THEN "none" ELSE "score", frid) :
                (\E bad \in Range(restaurant_ids) : fails(bad))
                => /\ ~out.raised
                   /\ AutoRankConsistent(out.rk)
                   /\ \A rid \in Range(restaurant_ids) :
                         ~fails(rid)
                         => Stored(out.rk, rid,
                                   Score(w, source_ratings, reviews, rid))

\* The table is what a batch leaves whose first restaurant met a store failure
\* and whose second is rated: the second is stored and ranked, the first has
\* no row.
C5_Witness ==
    /\ call.op = "compute_rankings_for_restaurants"
    /\ call.fault = "score"
    /\ ~call.raised
    /\ \E bad, good \in RIds :
          /\ bad < good
          /\ \A w \in ActiveWeights(ranking_weights) :
                /\ Score(w, source_ratings, reviews, bad).ok
                /\ Score(w, source_ratings, reviews, good).ok
                /\ Score(w, source_ratings, reviews, good).composite_score > 0
                /\ Stored(rankings, good, Score(w, source_ratings, reviews, good))
          /\ ~\E x \in rankings : x.restaurant_id = bad
          /\ \E x \in rankings : x.restaurant_id = good /\ x.auto_rank = 1
          /\ [rk |-> rankings, raised |-> FALSE]
                \in BatchOutcomes(ranking_weights, source_ratings, reviews,
                                  rankings, <<bad, good>>, "score", bad)

\* The same with an iteration that raises on its own: a yelp-rated restaurant
\* under a yelp weight that is not a number.
C5_RaisingIterationReached ==
    /\ call.op = "compute_rankings_for_restaurants"
    /\ \E bad, good \in RIds :
          /\ \A w \in ActiveWeights(ranking_weights) :
                /\ ~Score(w, source_ratings, reviews, bad).ok
                /\ Score(w, source_ratings, reviews, good).ok
                /\ Stored(rankings, good, Score(w, source_ratings, reviews, good))
          /\ \E x \in rankings : x.restaurant_id = good /\ x.composite_score > 0
          /\ ~\E x \in rankings : x.restaurant_id = bad

\* C6: a store error met while resolving the region, while scoring or writing
\* a restaurant, or in the global re-rank reaches the caller: the call raises.
C6_StoreErrorsPropagate ==
    (EngineCall /\ call.fault # "none") => call.raised

\* a = b without regard to case.
CiEq(a, b) ==
    /\ a # NullText /\ b # NullText /\ Len(a) = Len(b)
    /\ \A i \in DOMAIN a : LowerChar(a[i]) = LowerChar(b[i])

\* The display name of the region with the code, the code when there is none.
DisplayName(rg, region_code) ==
    IF \E x \in rg : x.code = region_code
    THEN (CHOOSE x \in rg : x.code = region_code).name
    ELSE region_code

\* The active restaurants of a region as the resolver's contract names them.
RegionMembers(rs, rg, region_code) ==
    {r \in DOMAIN rs :
        /\ rs[r].is_active = 1
        /\ \/ CiEq(rs[r].canton, region_code)
           \/ CiEq(rs[r].city, region_code)
           \/ CiEq(rs[r].city, DisplayName(rg, region_code))}

\* C7: a compute_rankings call whose region has no active member by area
\* code, city or display name returns without raising and leaves the rankings
\* table as it was.
C7_EmptyRegionNoWrites ==
    [][(/\ call'.op = "compute_rankings"
        /\ call'.fault = "none"
        /\ RegionMembers(restaurants, regions, call'.region_code) = {})
       => (rankings' = rankings /\ ~call'.raised)]_vars

\* A call for a region without members met a table with two tied rows, which
\* a re-rank could have swapped.
C7_Witness ==
    /\ call.op = "compute_rankings"
    /\ RegionMembers(restaurants, regions, call.region_code) = {}
    /\ call.ids = {}
    /\ \E x, y \in rankings : x # y /\ x.composite_score = y.composite_score

ZeroWeightedRating(w, sr, rid) ==
    LET pw == ProviderWeights(w)
        matched == {x \in sr : /\ x.restaurant_id = rid
                               /\ x.source \in DOMAIN pw
                               /\ x.avg_rating # NullInt /\ x.avg_rating # 0}
    IN  \/ matched = {}
        \/ SumOver({x.source : x \in matched}, pw) <= 0

\* C9: every ranking row of a restaurant whose weighted source rating is zero
\* has composite_score 0, whatever its sentiment average and the sentiment
\* weight.
C9_ZeroRatingZeroComposite ==
    \A x \in rankings : \A w \in ActiveWeights(ranking_weights) :
        ZeroWeightedRating(w, source_ratings, x.restaurant_id)
        => x.composite_score = 0

\* A restaurant with a positive sentiment average and a positive sentiment
\* weight, rated only by a provider without weight, is stored with composite 0.
C9_Witness ==
    /\ call.op = "compute_rankings_for_restaurants"
    /\ \E x \in rankings : \A w \in ActiveWeights(ranking_weights) :
          /\ ZeroWeightedRating(w, source_ratings, x.restaurant_id)
          /\ \E s \in source_ratings : s.restaurant_id = x.restaurant_id
          /\ x.sentiment_avg > 0 /\ w.weight_sentiment > 0
          /\ x.composite_score = 0

\* C10: exactly one ranking_weights row is active.
C10_OneActiveWeightsRow ==
    Cardinality({i \in DOMAIN ranking_weights :
                    ranking_weights[i].is_active = 1}) = 1

\* The result of the short-circuit of analyze_review_sentiment.
NeutralZero == Result(0, 0, "neutral", 0, NoAspects)

\* The number of characters from the first to the last non-whitespace
\* character of a text, 0 when it has none.
Span(s) ==
    LET inked == {i \in DOMAIN s : ~IsSpace(s[i])}
    IN  IF inked = {} THEN 0
        ELSE (CHOOSE i \in inked : \A j \in inked : i >= j)
               - (CHOOSE i \in inked : \A j \in inked : i <= j) + 1

\* C11: analyze_review_sentiment never raises to its caller.  Whatever the
\* text and the keyword table, whether the store fails or not, whether the
\* statistical model is missing, throws or returns, the call returns a result
\* record with a label and numbers in range; when the model is missing or
\* throws on a text that is analysed, the record is the keyword heuristic's.
C11_AnalyzerNeverRaises ==
    analysis.done =>
        /\ analysis.result.raised = FALSE
        /\ call.raised = FALSE
        /\ analysis.result.label \in {"positive", "neutral", "negative"}
        /\ analysis.result.polarity \in (0 - 1000) .. 1000
        /\ analysis.result.subjectivity \in 0 .. 1000
        /\ analysis.result.confidence \in 0 .. 1000
        /\ (Span(analysis.review_text) >= 3
            /\ analysis.textblob.status \in {"missing", "throws"})
           => analysis.result =
                 analyze_sentiment_keywords(
                     analysis.review_text,
                     get_custom_keywords_from_db(sentiment_keywords,
                                                 analysis.db_fault))

\* The model throws and the store fails on a text with a keyword hit.
C11_Witness ==
    /\ analysis.done
    /\ analysis.textblob.status = "throws"
    /\ analysis.db_fault
    /\ analysis.result.raised = FALSE
    /\ analysis.result.subjectivity = 700
    /\ analysis.result.polarity < 0

\* C12, as the code has it: for every text with fewer than 3 characters left
\* after leading and trailing whitespace is removed (the empty text and the
\* all-whitespace texts included), analyze_review_sentiment returns exactly
\* polarity 0, subjectivity 0, label neutral, confidence 0 and no aspects.
C12_ShortTextNeutral ==
    (analysis.done /\ Span(analysis.review_text) < 3)
        => analysis.result = NeutralZero

\* A text of 3 characters that is short once stripped.
C12_Witness ==
    /\ analysis.done
    /\ Len(analysis.review_text) >= 3
    /\ Span(analysis.review_text) \in 1 .. 2
    /\ analysis.result = NeutralZero

\* C12, as stated: every text with fewer than 3 non-whitespace characters,
\* inner whitespace or not, gets the neutral zero result.
C12_FewCharactersNeutral ==
    (analysis.done
     /\ Cardinality({i \in DOMAIN analysis.review_text :
                        ~IsSpace(analysis.review_text[i])}) < 3)
        => analysis.result = NeutralZero

\* C13: for every star rating, text polarity and text weight, a sentiment of
\* confidence 0 makes combine_rating_and_text_sentiment return exactly
\* (star_rating - 3) / 2; the polarity contributes nothing.
C13_ZeroConfidenceStarsOnly ==
    (combined.done /\ combined.text_sentiment.confidence = 0)
        => combined.score = (combined.star_rating - 30) * 50

\* Zero confidence with the text weight at its maximum and a polarity
\* opposed to the stars.
C13_Witness ==
    /\ combined.done
    /\ combined.text_sentiment.confidence = 0
    /\ combined.text_sentiment.polarity = 1000
    /\ combined.text_weight = 100
    /\ combined.star_rating = 10
    /\ combined.score = 0 - 1000

\* C14: for star ratings in [1, 5], polarities in [-1, 1], confidences and
\* text weights in [0, 1] the combined score lies in [-1, 1].
C14_CombinedInRange ==
    combined.done => combined.score \in (0 - 1000) .. 1000

\* Both ends of the range are met, by the stars alone and by the text alone.
C14_Witness ==
    /\ combined.done
    /\ combined.star_rating = 10
    /\ combined.text_sentiment.polarity = 1000
    /\ combined.text_sentiment.confidence = 1000
    /\ combined.text_weight = 100
    /\ combined.score = 1000

\* The hit counts of a category of the merged keyword lists in the text of
\* the analysis.
Hits(a, sentiment) ==
    CountHits(MergedKeywords(get_custom_keywords_from_db(
                  sentiment_keywords, analysis.db_fault))[a][sentiment],
              Lower(analysis.review_text))

\* The categories the extractor knows at the analysis: builtin and custom.
Categories ==
    DOMAIN aspect_keywords
      \cup DOMAIN get_custom_keywords_from_db(sentiment_keywords, analysis.db_fault)

\* The analysis returned the map of analyze_aspects.
AspectsReturned ==
    /\ analysis.done
    /\ Span(analysis.review_text) >= 3
    /\ analysis.textblob.status = "ok"

\* C15: in the map analyze_aspects returns, a category with equal non-zero
\* positive and negative hit counts has score exactly 0 and a category
\* without a hit has no key; for builtin and for custom categories.
C15_TiedAspectZeroNoHitAbsent ==
    AspectsReturned =>
        \A a \in Categories :
            /\ (Hits(a, "positive") = Hits(a, "negative")
                /\ Hits(a, "positive") > 0)
               => (a \in DOMAIN analysis.result.aspects
                   /\ analysis.result.aspects[a] = 0)
            /\ (Hits(a, "positive") + Hits(a, "negative") = 0)
               => a \notin DOMAIN analysis.result.aspects

\* A builtin and a custom category are tied, another builtin category has
\* no hit.
C15_Witness ==
    /\ AspectsReturned
    /\ \E a \in DOMAIN aspect_keywords :
          Hits(a, "positive") = Hits(a, "negative") /\ Hits(a, "positive") > 0
    /\ \E a \in Categories \ DOMAIN aspect_keywords :
          /\ Hits(a, "positive") = Hits(a, "negative") /\ Hits(a, "positive") > 0
          /\ analysis.result.aspects[a] = 0
    /\ \E a \in DOMAIN aspect_keywords :
          Hits(a, "positive") + Hits(a, "negative") = 0
          /\ a \notin DOMAIN analysis.result.aspects

\* C16: in the global re-rank, rows with equal composite_score are ranked in
\* their id (insertion) order, the same on every re-rank.
C16_TiesRankedInIdOrder ==
    (EngineCall /\ call.fault = "none" /\ ~call.raised)
        => \A x, y \in rankings :
              (x.composite_score = y.composite_score /\ x.id < y.id)
              => x.auto_rank < y.auto_rank

\* The computed columns of a ranking row.
Computed(x) ==
    <<x.composite_score, x.sentiment_avg, x.confidence_score, x.total_reviews>>

\* C17: writes are committed per restaurant.  When the iteration of a
\* restaurant of a batch fails (a store error on one of its statements, or an
\* exception of its scoring), every restaurant processed before it holds its
\* newly computed values after the call, and the failing restaurant's row
\* holds the values it had before the batch, or is still missing.
C17_CommittedPerRestaurant ==
    \A restaurant_ids \in IdLists(RIds) :
      \A w \in ActiveWeights(ranking_weights) :
        \A frid \in Range(restaurant_ids) :
          LET fails(rid) == rid = frid
                            \/ ~Score(w, source_ratings, reviews, rid).ok
              before(rid) == \E i, j \in DOMAIN restaurant_ids :
                                /\ i < j
                                /\ restaurant_ids[i] = rid
                                /\ restaurant_ids[j] = frid
          IN  \A out \in BatchOutcomes(<<w>>, source_ratings, reviews, rankings,
                                       restaurant_ids, "score", frid) :
                /\ \A rid \in Range(restaurant_ids) :
                      (before(rid) /\ ~fails(rid))
                      => Stored(out.rk, rid,
                                Score(w, source_ratings, reviews, rid))
                /\ \A rid \in Range(restaurant_ids) :
                      fails(rid)
                      => /\ \A y \in out.rk :
                               y.restaurant_id = rid
                               => \E x \in rankings :
                                     x.id = y.id /\ Computed(x) = Computed(y)
                         /\ \A x \in rankings :
                               x.restaurant_id = rid
                               => \E y \in out.rk : y.id = x.id

\* The table is what a batch over <<good, bad>> leaves in which bad met a
\* store failure: good's row, inserted after bad's, holds its computed
\* values; bad's row holds a score of the weights before the last save.
C17_Witness ==
    /\ call.op = "compute_rankings_for_restaurants"
    /\ call.fault = "score"
    /\ ~call.raised
    /\ \E good, bad \in RIds :
          /\ good < bad
          /\ \A w \in ActiveWeights(ranking_weights) :
                /\ Score(w, source_ratings, reviews, good).ok
                /\ Score(w, source_ratings, reviews, bad).ok
                /\ Stored(rankings, good, Score(w, source_ratings, reviews, good))
                /\ \E x \in rankings :
                      /\ x.restaurant_id = bad
                      /\ x.composite_score > 0
                      /\ x.composite_score
                           # Score(w, source_ratings, reviews, bad).composite_score
          /\ \E x, y \in rankings :
                x.restaurant_id = good /\ y.restaurant_id = bad /\ x.id > y.id
          /\ [rk |-> rankings, raised |-> FALSE]
                \in BatchOutcomes(ranking_weights, source_ratings, reviews,
                                  rankings, <<good, bad>>, "score", bad)

\* The source_ratings rows of the three weighted sources that rate a
\* restaurant.
BuiltinRatings(rid) ==
    {s \in source_ratings :
        /\ s.restaurant_id = rid
        /\ s.source \in {"google", "yelp", "tripadvisor"}
        /\ s.avg_rating # NullInt /\ s.avg_rating # 0}

\* Restaurant a is rated r on all three weighted sources, restaurant b is
\* rated r on one only, the weights are those of the three sources, all
\* positive, the sentiment is the same, and x and y are their rows as the
\* engine computes them.
OneOfThree(w, a, b, x, y) ==
    /\ x.restaurant_id = a /\ y.restaurant_id = b
    /\ Cardinality(BuiltinRatings(a)) = 3
    /\ Cardinality(BuiltinRatings(b)) = 1
    /\ \A s, t \in BuiltinRatings(a) \cup BuiltinRatings(b) :
          s.avg_rating = t.avg_rating
    /\ DOMAIN CustomWeights(w) = {}
    /\ w.weight_google > 0 /\ w.weight_yelp > 0 /\ w.weight_tripadvisor > 0
    /\ Score(w, source_ratings, reviews, a).ok
    /\ Score(w, source_ratings, reviews, b).ok
    /\ Stored({x}, a, Score(w, source_ratings, reviews, a))
    /\ Stored({y}, b, Score(w, source_ratings, reviews, b))
    /\ x.sentiment_avg = y.sentiment_avg

\* C18, as the code has it: the provider weights are renormalized over the
\* sources that rate the restaurant, so a restaurant rated r on one of the
\* three weighted sources gets the same weighted-average rating, and with
\* equal sentiment the same composite score, as one rated r on all three.
C18_WeightsRenormalized ==
    \A w \in ActiveWeights(ranking_weights) : \A a, b \in RIds :
        \A x, y \in rankings :
            OneOfThree(w, a, b, x, y) => y.composite_score = x.composite_score

\* Restaurant 1 rated on three sources and restaurant 2 on google only, both
\* scored and ranked.
C18_Witness ==
    /\ EngineCall
    /\ \E w \in ActiveWeights(ranking_weights) : \E a, b \in RIds :
          \E x, y \in rankings :
              /\ OneOfThree(w, a, b, x, y)
              /\ x.composite_score > 0
              /\ x.auto_rank > 0 /\ y.auto_rank > 0

\* C18, as stated: the restaurant rated on one source gets a smaller composite
\* score than the one rated on all three.
C18_OneSourceDiluted ==
    \A w \in ActiveWeights(ranking_weights) : \A a, b \in RIds :
        \A x, y \in rankings :
            OneOfThree(w, a, b, x, y) => y.composite_score < x.composite_score

\* avg_rating * (1 - sentiment_weight) + ((avg_sentiment + 1) / 2) * 5 *
\* sentiment_weight in thousandths, rounded, where avg_rating = rating_sum /
\* weight_sum (in tenths) and avg_sentiment = num / den (in thousandths).
ExpectedComposite(rating_sum, weight_sum, ws, num, den) ==
    LET n == 40 * den * rating_sum * (100 - ws)
               + weight_sum * ws * (num + 1000 * den)
        d == 40 * den * weight_sum
    IN  RoundDiv(n, d)

\* The rated sources of a restaurant that the provider weights know.
Weighted(w, rid) ==
    {s \in source_ratings :
        /\ s.restaurant_id = rid
        /\ s.source \in DOMAIN ProviderWeights(w)
        /\ s.avg_rating # NullInt /\ s.avg_rating # 0}

\* C19: for every restaurant with avg_rating > 0 the stored composite_score is
\* avg_rating * (1 - sentiment_weight) + ((avg_sentiment + 1) / 2) * 5 *
\* sentiment_weight rounded to 3 decimals, avg_rating being the weighted mean
\* over the sources both rated and weighted.
C19_CompositeFormula ==
    (call.op = "compute_rankings_for_restaurants" /\ ~call.raised)
    => \A x \in rankings : \A w \in ActiveWeights(ranking_weights) :
          LET rid == x.restaurant_id
              rows == Weighted(w, rid)
              pw == ProviderWeights(w)
              via == {s.source : s \in rows}
              rating_sum == SumOver(via, [p \in via |->
                               (CHOOSE s \in rows : s.source = p).avg_rating * pw[p]])
              weight_sum == SumOver(via, pw)
              scored == {i \in DOMAIN reviews[rid] : reviews[rid][i] # NullInt}
              num == SumOver(scored, reviews[rid])
              den == IF scored = {} THEN 1 ELSE Cardinality(scored)
          IN  (weight_sum > 0 /\ rating_sum > 0)
              => x.composite_score
                   = ExpectedComposite(rating_sum, weight_sum,
                                       w.weight_sentiment, num, den)

\* google 4.5 and yelp 4.0 under the weights 0.25 / 0.20, sentiment weight
\* 0.10 and average sentiment 0.4: the stored composite is 4.200.
C19_Witness ==
    /\ call.op = "compute_rankings_for_restaurants"
    /\ ranking_weights = <<DefaultWeightsRow>>
    /\ reviews[1] = <<400>>
    /\ {<<s.source, s.avg_rating>> : s \in Weighted(DefaultWeightsRow, 1)}
         = {<<"google", 45>>, <<"yelp", 40>>}
    /\ \E x \in rankings :
          x.restaurant_id = 1 /\ x.composite_score = 4200 /\ x.sentiment_avg = 400

\* The review counts of a restaurant's source_ratings rows, summed.
TotalReviews(rid) ==
    LET rows == {s \in source_ratings :
                    s.restaurant_id = rid /\ s.review_count # NullInt}
        via == {s.source : s \in rows}
    IN  SumOver(via, [p \in via |->
                        (CHOOSE s \in rows : s.source = p).review_count])

\* C20: the stored confidence is 0.5 when the restaurant's total review count
\* is below min_reviews_threshold and min(1, log10(total_reviews + 1) /
\* log10(100)) otherwise.
C20_ConfidenceByThreshold ==
    (call.op = "compute_rankings_for_restaurants" /\ ~call.raised)
    => \A x \in rankings : \A w \in ActiveWeights(ranking_weights) :
          LET total == TotalReviews(x.restaurant_id)
          IN  /\ x.total_reviews = total
              /\ total < w.min_reviews_threshold => x.confidence_score = 500
              /\ (total >= w.min_reviews_threshold /\ total < 99)
                 => x.confidence_score = Log100Table[total + 1]
              /\ (total >= w.min_reviews_threshold /\ total >= 99)
                 => x.confidence_score = 1000

\* With threshold 5 a restaurant of 5 reviews is stored with 0.389 next to
\* one of 4 reviews stored with 0.5.
C20_Witness ==
    /\ call.op = "compute_rankings_for_restaurants"
    /\ \A w \in ActiveWeights(ranking_weights) : w.min_reviews_threshold = 5
    /\ \E x, y \in rankings :
          /\ x.total_reviews = 5 /\ x.confidence_score = 389
          /\ y.total_reviews = 4 /\ y.confidence_score = 500
          /\ TotalReviews(x.restaurant_id) = 5
          /\ TotalReviews(y.restaurant_id) = 4

\* The analysis took the keyword-fallback path.
FallbackTaken ==
    /\ analysis.done
    /\ Span(analysis.review_text) >= 3
    /\ analysis.textblob.status \in {"missing", "throws"}

\* C21: on the keyword-fallback path the aspects of the result are those of
\* the aspect extractor, for every text of at least 3 characters and every
\* keyword table, also when the text holds no positive or negative word.
C21_FallbackAspectsFromExtractor ==
    FallbackTaken
        => analysis.result.aspects
             = analyze_aspects(analysis.review_text,
                               get_custom_keywords_from_db(sentiment_keywords,
                                                           analysis.db_fault))

\* An active row of the keyword table whose keyword another active row of the
\* same category and sentiment holds too, letter case apart.
DuplicateRows ==
    {r \in sentiment_keywords :
        /\ r.is_active = 1
        /\ \E q \in sentiment_keywords \ {r} :
              /\ q.is_active = 1
              /\ Lower(q.keyword) = Lower(r.keyword)
              /\ Lower(q.category) = Lower(r.category)
              /\ q.sentiment = r.sentiment}

\* An active row of the keyword table whose keyword the builtin list of its
\* category and sentiment holds.
BuiltinDuplicateRows ==
    {r \in sentiment_keywords :
        /\ r.is_active = 1
        /\ Lower(r.category) \in DOMAIN aspect_keywords
        /\ \E i \in DOMAIN aspect_keywords[Lower(r.category)][r.sentiment] :
              aspect_keywords[Lower(r.category)][r.sentiment][i] = Lower(r.keyword)}

\* C22: a custom keyword that duplicates, letter case apart, a keyword of the
\* same category and sentiment (a builtin one, or another custom one of the
\* same configuration) changes no aspect score: the aspects are those of the
\* configuration without it.
C22_DuplicateKeywordNoEffect ==
    (AspectsReturned /\ ~analysis.db_fault)
        => \A r \in DuplicateRows \cup BuiltinDuplicateRows :
              analysis.result.aspects
                = analyze_aspects(analysis.review_text,
                                  get_custom_keywords_from_db(
                                      sentiment_keywords \ {r}, FALSE))

\* The ranking rows of the restaurants whose area code or city is the region,
\* whatever the case of the letters.
RegionRows(region) ==
    {x \in rankings : \/ CiEq(restaurants[x.restaurant_id].canton, region)
                      \/ CiEq(restaurants[x.restaurant_id].city, region)}

Min(a, b) == IF a <= b THEN a ELSE b

\* C23: after publish_rankings(region, top_n) without restaurant ids the
\* published rows of the region are min(top_n, number of region rows) rows, no
\* unpublished row of the region has a smaller COALESCE(manual_rank, auto_rank)
\* than a published one, and every other row of the region has
\* is_published = 0.
C23_PublishPrefersManualRank ==
    (call.op = "publish_rankings" /\ call.ids = {} /\ call.region_code # NullText)
        => LET rows == RegionRows(call.region_code)
               published == {x \in rows : x.is_published = 1}
               key(x) == IF x.manual_rank # NullInt THEN x.manual_rank
                         ELSE x.auto_rank
           IN  /\ Cardinality(published) = Min(call.top_n, Cardinality(rows))
               /\ \A x \in published : \A y \in rows \ published :
                     key(x) <= key(y)
               /\ \A y \in rows \ published : y.is_published = 0

\* A publication of the first row of a region published the row ranked second
\* by the engine, whose manual rank puts it before the row ranked first.
C23_Witness ==
    /\ call.op = "publish_rankings" /\ call.ids = {} /\ call.top_n = 1
    /\ \E x, y \in RegionRows(call.region_code) :
          /\ x.auto_rank = 1 /\ x.manual_rank = 3 /\ x.is_published = 0
          /\ y.auto_rank = 2 /\ y.manual_rank = NullInt /\ y.is_published = 1

\* C24: every iteration of one compute_rankings_for_restaurants invocation
\* scores with the same weights row (weight values and threshold), whatever
\* save_ranking_weights commits while the invocation runs.
C24_WeightsReadOncePerBatch ==
    \A p \in Invocations :
        \A i, j \in DOMAIN batches[p].scored :
            batches[p].scored[i].w = batches[p].scored[j].w

\* The second iteration of an invocation scored with the weights of the
\* first while other weights were active.
C24_Witness ==
    \E p \in Invocations :
        /\ Len(batches[p].scored) = 2
        /\ batches[p].scored[1].w \in batches[p].scored[1].active
        /\ batches[p].scored[2].w \notin batches[p].scored[2].active

\* C25: compute_rankings_for_restaurants(S) leaves every ranking row of a
\* restaurant outside S as it was but for auto_rank: composite_score,
\* sentiment_avg, confidence_score and total_reviews keep their values.
C25_RowsOutsideBatchKept ==
    [][\A restaurant_ids \in IdLists(RIds) :
          (/\ call'.op = "compute_rankings_for_restaurants"
           /\ compute_rankings_for_restaurants(restaurant_ids, "none", 0))
              => \A x \in rankings :
                    x.restaurant_id \notin Range(restaurant_ids)
                        => \E y \in rankings' :
                              /\ y = [x EXCEPT !.auto_rank = y.auto_rank]
                              /\ y.composite_score = x.composite_score
                              /\ y.sentiment_avg = x.sentiment_avg
                              /\ y.confidence_score = x.confidence_score
                              /\ y.total_reviews = x.total_reviews]_vars

\* After a batch an older row holds a score that the active weights do not
\* give its restaurant, and a newer row is ranked before it: the batch
\* inserted the newer row and moved the older one down without rescoring it.
C25_Witness ==
    /\ call.op = "compute_rankings_for_restaurants" /\ call.fault = "none"
    /\ \E x, y \in rankings :
          /\ x.id < y.id /\ y.auto_rank = 1 /\ x.auto_rank = 2
          /\ \A w \in ActiveWeights(ranking_weights) :
                LET sc == Score(w, source_ratings, reviews, x.restaurant_id)
                IN  sc.ok /\ sc.composite_score # x.composite_score

\* C26: however two invocations of compute_rankings_for_restaurants interleave
\* on a restaurant that has no ranking row yet, the restaurant never has two
\* ranking rows.
C26_InterleavedUpsertOneRow ==
    \A rid \in RIds : Cardinality({x \in rankings : x.restaurant_id = rid}) <= 1

\* C27: once two interleaved invocations of compute_rankings_for_restaurants
\* have both returned, the auto_rank values are a permutation of 1..N that
\* follows the final composite_score descending.
C27_InterleavedRerankConsistent ==
    (\A p \in Invocations : batches[p].pc = "returned")
        => AutoRankConsistent(rankings)

\* C28: an excluded restaurant has no published ranking row until
\* include_restaurant is called for it, whatever compute_rankings,
\* publish_rankings and daily runs follow the exclusion.
C28_ExcludedStaysUnpublished ==
    \A x \in rankings : is_excluded[x.restaurant_id] = 1 => x.is_published = 0

\* The active restaurants with a review newer than the last computation of
\* their ranking row, or with a review and no ranking row.
StillChanged ==
    {r \in RIds :
        /\ restaurants[r].is_active = 1
        /\ \E i \in DOMAIN review_created_at[r] :
              \A x \in rankings :
                  x.restaurant_id = r => review_created_at[r][i] > x.last_computed}

\* C30: when run_daily_tasks has completed, no active restaurant, with or
\* without a canton, has a review newer than its ranking's last_computed: a
\* second run with no review added in between selects no restaurant.
C30_DailyRecomputeConverges ==
    call.op = "run_daily_tasks" => StillChanged = {}

\* C29: no update_ranking call and no compute_rankings_for_restaurants call
\* returns the manual_rank of a ranking row from a value to NULL; an
\* update_ranking without manual_rank keeps the value.
C29_ManualRankNeverCleared ==
    [][call'.op \in {"update_ranking", "compute_rankings_for_restaurants"} =>
        \A x \in rankings :
            x.manual_rank # NullInt
                => \E y \in rankings' : y.id = x.id /\ y.manual_rank # NullInt]_vars

\* An update_ranking without manual_rank (it unpublishes) was applied to a
\* row curated before: the row keeps manual_rank 1.
C29_Witness ==
    /\ call.op = "update_ranking"
    /\ \E x \in rankings :
          /\ x.manual_rank = 1 /\ x.is_featured = 1 /\ x.admin_notes = "vip"
          /\ x.is_published = 0

====
